---- MODULE Spec2Model ----
(***************************************************************************)
(* A model of the kademlia-dht node: identifiers, the lookup shortlist,    *)
(* the iterative lookup engine (lib/lookup.js), the routing table          *)
(* (lib/routing-table.js, lib/bucket.js) and the Dht node (lib/dht.js).    *)
(*                                                                         *)
(* Identifiers are naturals of IdSize "bytes" of ByteBits bits each (the   *)
(* source has 20 bytes of 8 bits); byte 0 is the most significant one.     *)
(* JavaScript strings are sequences of one-character strings, so that a   *)
(* raw key such as "hello" and the hex rendering of its Id are different   *)
(* values of the same type.                                                *)
(***************************************************************************)
EXTENDS Integers, Sequences, FiniteSets, TLC

\* ------------------------------------------------------------------ bounds
IdSize == 2          \* bytes per Id            (Id.SIZE is 20 in the source)
ByteBits == 2        \* bits per byte           (8 in the source)
BucketSize == 2      \* opts.bucketSize, k      (default 20)
Concurrency == 2     \* opts.concurrency, alpha (default 3)
MaxContacts == 3     \* contacts a lookup can hear of
MaxReply == 2        \* contacts carried by one RPC reply
NumNodes == 2        \* Dht nodes of the network
MaxOps == 2          \* calls of the Dht API and RPCs of outside peers in one behaviour
MaxSeeds == 2        \* seeds given to one bootstrap
MaxTableIds == 3     \* ids near the local id that contacts of the table alone take
MaxEndpoints == 3    \* endpoints that contacts of the table alone take
MaxPeers == 4        \* peers that send requests to the node
MaxRequests == 6     \* requests that the peers send to the node
MaxCacheRequests == 3 \* store and find_value requests sent to the node
MaxRpcs == 4         \* calls of the RPC helpers of the node

\* JavaScript's undefined and null, among strings (sequences of characters)
Undefined == << "#undefined" >>
Null == << "#null" >>

\* ------------------------------------------------------------- identifiers
Pow2(n) == 2 ^ n

BIT_SIZE == IdSize * ByteBits

\* this._buf[i]
Byte(id, i) == (id \div Pow2(ByteBits * (IdSize - 1 - i))) % Pow2(ByteBits)

\* JavaScript's ^ on two bytes
RECURSIVE Xor(_, _)
Xor(a, b) ==
    IF a = 0 THEN b
    ELSE IF b = 0 THEN a
    ELSE 2 * Xor(a \div 2, b \div 2) + (((a % 2) + (b % 2)) % 2)

\* the bytes of an identifier, and ^ tabulated on them
Bytes == 0 .. Pow2(ByteBits) - 1

XorByte == [a \in Bytes |-> [b \in Bytes |-> Xor(a, b)]]

RECURSIVE CompareFrom(_, _, _, _)
CompareFrom(self, first, second, i) ==
    IF i = IdSize THEN 0
    ELSE LET bt1 == XorByte[Byte(self, i)][Byte(first, i)]
             bt2 == XorByte[Byte(self, i)][Byte(second, i)]
         IN IF bt1 > bt2 THEN -1
            ELSE IF bt1 < bt2 THEN 1
            ELSE CompareFrom(self, first, second, i + 1)

\* Id.prototype.compareDistance: > 0 when first is closer to self than second
compareDistance(self, first, second) == CompareFrom(self, first, second, 0)

\* Id.prototype.equal
equal(a, b) == \A i \in 0 .. IdSize - 1 : Byte(a, i) = Byte(b, i)

\* Id.prototype.at: bit i, bit 0 being the most significant bit of byte 0
at(id, i) ==
    ((Byte(id, i \div ByteBits) \div Pow2((ByteBits - 1) - (i % ByteBits))) % 2) = 1

\* a contact: new Contact(id, endpoint)
Contact(id, endpoint) == [id |-> id, endpoint |-> endpoint]

\* null, where a contact is expected
NoContact == Contact(-1, -1)

\* the elements of a finite set of contacts, as a sequence in ascending id
RECURSIVE SetToSeq(_)
SetToSeq(S) ==
    IF S = {} THEN << >>
    ELSE LET c == CHOOSE x \in S : \A y \in S : x.id <= y.id
         IN << c >> \o SetToSeq(S \ {c})

\* ------------------------------------------------------------- lookup list
\* A lookup list is a sequence of slots [contact, processed], closest first.

\* LookupList.prototype.insert
LLInsert(target, cap, slots, c) ==
    IF \E i \in 1 .. Len(slots) : equal(slots[i].contact.id, c.id)
    THEN slots
    ELSE LET pos == Cardinality({i \in 1 .. Len(slots) :
                        compareDistance(target, slots[i].contact.id, c.id) > 0})
             new == SubSeq(slots, 1, pos)
                    \o << [contact |-> c, processed |-> FALSE] >>
                    \o SubSeq(slots, pos + 1, Len(slots))
         IN IF Len(new) > cap THEN SubSeq(new, 1, cap) ELSE new

\* LookupList.prototype.insertMany
RECURSIVE LLInsertMany(_, _, _, _)
LLInsertMany(target, cap, slots, cs) ==
    IF cs = << >> THEN slots
    ELSE LLInsertMany(target, cap, LLInsert(target, cap, slots, Head(cs)), Tail(cs))

\* LookupList.prototype.next: the index of the closest slot not yet processed
\* (0 when there is none) and the slots with that one marked processed
LLNext(slots) ==
    LET open == {i \in 1 .. Len(slots) : ~slots[i].processed}
    IN IF open = {} THEN [index |-> 0, slots |-> slots]
       ELSE LET i == CHOOSE j \in open : \A m \in open : j <= m
            IN [index |-> i, slots |-> [slots EXCEPT ![i].processed = TRUE]]

\* LookupList.prototype.remove
LLRemove(slots, c) ==
    SelectSeq(slots, LAMBDA s : ~equal(s.contact.id, c.id))

\* LookupList.prototype.getContacts
LLGetContacts(slots) == [i \in 1 .. Len(slots) |-> slots[i].contact]

\* ---------------------------------------------------------------- variables
VARIABLES
    \* one Lookup object (lib/lookup.js) and the RPC helper it was given
    lkPc,            \* "new": constructed; "running": proceed(cb) was called
    lkTargetId,      \* this._targetId
    lkSubkey,        \* this._subkey: Undefined (find node), Null (all subkeys) or a subkey
    lkList,          \* this._list
    lkConcurrents,   \* this._concurrents
    lkAbort,         \* this._abort
    lkValue,         \* this._value, a map from subkeys (empty: undefined)
    lkValueTimeout,  \* this._valueTimeout
    lkSrccontact,    \* this._srccontact
    lkPending,       \* RPCs issued through opts.findNodeOrValue and not yet completed
    lkCalls,         \* the calls of cb made so far, in order
    lkThrew,         \* a response handler ended with an exception
    lkLast,          \* per contact id: outcome of its most recent completed RPC
    lkReported,      \* per subkey: the ids of the contacts whose reply carried a value for it
    \* the Dht nodes (lib/dht.js), each a function of the node
    dhtRoutes,       \* this._routes: the routing table
    dhtCache,        \* this._cache: idkey -> subkey -> entry
    dhtPendingContact, \* this._pendingContact (NoContact for null)
    dhtRefreshTimer, \* the timer of refreshLoop: "off", "armed" or "threw"
    dhtReplicateTimer, \* the timer of replicateLoop, as its last run armed it
    now,             \* the time of the clock (new Date()), in milliseconds
    net,             \* the RPC requests and responses in flight
    ops,             \* the calls of the Dht API made so far, with what came of them
    foreign          \* number of RPCs received from peers outside the network

lookupVars == << lkPc, lkTargetId, lkSubkey, lkList, lkConcurrents, lkAbort,
                 lkValue, lkValueTimeout, lkSrccontact, lkPending, lkCalls,
                 lkThrew, lkLast, lkReported >>

dhtVars == << dhtRoutes, dhtCache, dhtPendingContact, dhtRefreshTimer,
              dhtReplicateTimer, now, net, ops, foreign >>

vars == << lookupVars, dhtVars >>

\* ------------------------------------------------------------ lookup engine
LkIds == 1 .. MaxContacts
LkEndpoint(i) == 8000 + i
LkContacts == {Contact(i, LkEndpoint(i)) : i \in LkIds}
LkTargets == {MaxContacts}
LkSubKeySeq == << << "a" >>, << "b" >> >>
LkSubKeys == {LkSubKeySeq[i] : i \in 1 .. Len(LkSubKeySeq)}
LkTimeout == << "t" >>
EmptyMap == [x \in {} |-> Undefined]

\* the keys of a JavaScript object, in enumeration order
KeysOf(m) == SelectSeq(LkSubKeySeq, LAMBDA k : k \in DOMAIN m)

\* m with m[k] = v
Put(m, k, v) == [x \in DOMAIN m \cup {k} |-> IF x = k THEN v ELSE m[x]]

\* ++this._concurrents; this._forContact(contact, cb) on the contact that
\* next() returned (nx), in the loop of Lookup.prototype.proceed
IssueUncounted(st, nx) ==
    [list |-> nx.slots, concurrents |-> st.concurrents,
     issued |-> Append(st.issued, st.list[nx.index].contact), called |-> FALSE]

IssueRpc(st, nx) ==
    [list |-> nx.slots, concurrents |-> st.concurrents + 1,
     issued |-> Append(st.issued, st.list[nx.index].contact), called |-> FALSE]

\* The for loop of Lookup.prototype.proceed from iteration i on. st is
\* [list, concurrents, issued, called]: issued are the contacts handed to
\* _forContact, called tells that cb was called with the shortlist.
RECURSIVE ProceedLoop(_, _, _)
ProceedLoop(i, abort, st) ==
    IF i >= Concurrency THEN st
    ELSE LET nx == LLNext(st.list)
         IN IF nx.index = 0 /\ st.concurrents = 0 /\ ~abort
            THEN [st EXCEPT !.called = TRUE]
            ELSE IF nx.index = 0
            THEN st
            ELSE ProceedLoop(i + 1, abort, IssueRpc(st, nx))

\* Lookup.prototype.proceed
Proceed(list, concurrents, abort) ==
    ProceedLoop(0, abort, [list |-> list, concurrents |-> concurrents,
                           issued |-> << >>, called |-> FALSE])

\* The test of the all-subkeys branch that keeps the source of a subkey: it
\* is kept unless the responder is strictly closer to the target
KeepsNoSource(target, src, contact) == FALSE

KeepsSource(target, src, contact) ==
    compareDistance(target, src.id, contact.id) >= 0

\* The all-subkeys branch of the response handler: for (var k in value) ...
\* st is [value, valueTimeout, srccontact, threw].
RECURSIVE MergeValues(_, _, _, _, _, _)
MergeValues(target, st, keys, contact, value, timeout) ==
    IF keys = << >> THEN st
    ELSE LET k == Head(keys)
         IN IF k \in DOMAIN st.srccontact
               /\ KeepsSource(target, st.srccontact[k], contact)
            THEN MergeValues(target, st, Tail(keys), contact, value, timeout)
            ELSE IF ~timeout.defined
            THEN \* timeout[k] with timeout undefined: a TypeError ends the handler
                 [st EXCEPT !.srccontact = Put(st.srccontact, k, contact),
                            !.value = Put(st.value, k, value[k]),
                            !.threw = TRUE]
            ELSE MergeValues(target,
                     [st EXCEPT !.srccontact = Put(st.srccontact, k, contact),
                                !.value = Put(st.value, k, value[k]),
                                !.valueTimeout = Put(st.valueTimeout, k,
                                    IF k \in DOMAIN timeout.map THEN timeout.map[k]
                                    ELSE Undefined)],
                     Tail(keys), contact, value, timeout)

\* lkPending is a bag: a function from contact ids to counts
PendingAdd(p, cs) ==
    [i \in DOMAIN p |-> p[i] + Cardinality({j \in 1 .. Len(cs) : cs[j].id = i})]

RECURSIVE SumOver(_, _)
SumOver(p, S) ==
    IF S = {} THEN 0
    ELSE LET x == CHOOSE y \in S : TRUE IN p[x] + SumOver(p, S \ {x})

PendingCount(p) == SumOver(p, DOMAIN p)

\* a call of cb(err, contacts, value, timeout, srccontact); err is always null.
\* single: the call made on a single-subkey value, with that value and the
\* contact that returned it; otherwise values and srcMap are this._value and
\* this._srccontact.
CbCall(contacts, single, value, srcContact, values, srcMap) ==
    [contacts |-> contacts, single |-> single, value |-> value,
     srcContact |-> srcContact, values |-> values, srcMap |-> srcMap]

\* what a responder may answer besides contacts: no value, a single value or a
\* map of values, with or without the expire times. The value contact c holds
\* is a string of c.id characters, so that values tell their source.
NoTimeout == [defined |-> FALSE, map |-> EmptyMap]
NoAnswer == [kind |-> "none", value |-> Undefined, values |-> EmptyMap, timeout |-> NoTimeout]
LkValueOf(c) == [i \in 1 .. c.id |-> "v"]
LkTimeouts(D) == {NoTimeout, [defined |-> TRUE, map |-> [k \in D |-> LkTimeout]]}
LkAnswers(subkey, c) ==
    {NoAnswer}
    \cup (IF subkey = Undefined THEN {}
          ELSE IF subkey # Null
          THEN {[kind |-> "single", value |-> LkValueOf(c), values |-> EmptyMap,
                 timeout |-> t] : t \in LkTimeouts({})}
          ELSE UNION {{[kind |-> "all", value |-> Undefined,
                        values |-> [k \in D |-> LkValueOf(c)], timeout |-> t] :
                            t \in LkTimeouts(D)} : D \in (SUBSET LkSubKeys) \ {{}}})

\* ------------------------------------------------------------ keys and hex
HexDigits == << "0", "1", "2", "3", "4", "5", "6", "7",
                "8", "9", "a", "b", "c", "d", "e", "f" >>

\* the value of a hex digit, -1 for any other character
HexVal(c) ==
    IF \E i \in 1 .. Len(HexDigits) : HexDigits[i] = c
    THEN (CHOOSE i \in 1 .. Len(HexDigits) : HexDigits[i] = c) - 1
    ELSE -1

RECURSIVE HexFrom(_, _)
HexFrom(id, i) ==
    IF i = IdSize THEN << >>
    ELSE << HexDigits[(Byte(id, i) \div 16) + 1], HexDigits[(Byte(id, i) % 16) + 1] >>
         \o HexFrom(id, i + 1)

\* Id.prototype.toString: this._buf.toString('hex')
toString(id) == HexFrom(id, 0)

\* buf.write(str, 'hex') on a zeroed buffer: whole bytes, up to the first pair
\* of characters that is no hex number
RECURSIVE FromHexFrom(_, _)
FromHexFrom(str, i) ==
    IF i = IdSize \/ Len(str) < 2 * i + 2 THEN 0
    ELSE IF HexVal(str[2 * i + 1]) < 0 \/ HexVal(str[2 * i + 2]) < 0 THEN 0
    ELSE ((16 * HexVal(str[2 * i + 1]) + HexVal(str[2 * i + 2])) % Pow2(ByteBits))
              * Pow2(ByteBits * (IdSize - 1 - i))
         + FromHexFrom(str, i + 1)

\* Id.fromHex
fromHex(str) == FromHexFrom(str, 0)

\* the characters keys are made of, and the digest that stands for SHA-1:
\* a hash of the characters of the key into the Id space
Alphabet == << "a", "b", "k", "v" >>
CharCode(c) ==
    IF \E i \in 1 .. Len(Alphabet) : Alphabet[i] = c
    THEN CHOOSE i \in 1 .. Len(Alphabet) : Alphabet[i] = c
    ELSE 0

RECURSIVE Digest(_, _)
Digest(key, h) ==
    IF key = << >> THEN h
    ELSE Digest(Tail(key), (5 * h + CharCode(Head(key)) + 6) % Pow2(BIT_SIZE))

\* Id.fromKey on a string: a string of 2 * Id.SIZE hex digits is taken for the
\* hex form of an Id, any other string is hashed
fromKey(key) ==
    IF Len(key) = 2 * IdSize /\ \A i \in 1 .. Len(key) : HexVal(key[i]) >= 0
    THEN fromHex(key)
    ELSE Digest(key, 0)

\* Id.prototype.set: bit i of id set to v
SetBit(id, i, v) ==
    id - (IF at(id, i) THEN Pow2(BIT_SIZE - 1 - i) ELSE 0)
       + (IF v THEN Pow2(BIT_SIZE - 1 - i) ELSE 0)

\* Id.prototype.setPrefix, prefix a sequence of bits 0 and 1
RECURSIVE SetPrefixFrom(_, _, _)
SetPrefixFrom(id, prefix, j) ==
    IF j >= Len(prefix) THEN id
    ELSE SetPrefixFrom(SetBit(id, j, prefix[j + 1] = 1), prefix, j + 1)

setPrefix(id, prefix) == SetPrefixFrom(id, prefix, 0)

\* m without the key k
Drop(m, k) == [x \in DOMAIN m \ {k} |-> m[x]]

\* ------------------------------------------------------------ routing table
\* A routing table is [buckets, endpoints]: buckets maps the prefix of every
\* leaf of the tree (a sequence of bits) to [store, refreshed], store being the
\* contacts of the bucket from oldest to latest; endpoints is this._endpoints.

\* new RoutingTable(localId, bucketSize)
EmptyTable ==
    [buckets |-> [p \in {<< >>} |-> [store |-> << >>, refreshed |-> FALSE]],
     endpoints |-> [e \in {} |-> 0]]

\* Bucket.prototype.remove
BucketKeep(store, id) == store

BucketRemove(store, id) == SelectSeq(store, LAMBDA c : ~equal(c.id, id))

\* Bucket.prototype.store
BucketStoreUncapped(store, contact) ==
    [ok |-> TRUE, store |-> Append(BucketRemove(store, contact.id), contact)]

BucketStoreInPlace(store, contact) ==
    IF \E i \in 1 .. Len(store) : equal(store[i].id, contact.id)
    THEN [ok |-> TRUE,
          store |-> [i \in 1 .. Len(store) |->
                        IF equal(store[i].id, contact.id) THEN contact ELSE store[i]]]
    ELSE IF Len(store) = BucketSize THEN [ok |-> FALSE, store |-> store]
    ELSE [ok |-> TRUE, store |-> Append(store, contact)]

BucketStore(store, contact) ==
    LET s == BucketRemove(store, contact.id)
    IN IF Len(s) = BucketSize THEN [ok |-> FALSE, store |-> s]
       ELSE [ok |-> TRUE, store |-> Append(s, contact)]

\* Bucket.prototype.split: the contacts of store whose bit nth is bit
BucketSplitOnFirstBit(store, nth, bit) ==
    SelectSeq(store, LAMBDA c : at(c.id, 0) = bit)

BucketSplit(store, nth, bit) == SelectSeq(store, LAMBDA c : at(c.id, nth) = bit)

\* RoutingTable.prototype._findBucket, from bit i on
RECURSIVE FindBucketFrom(_, _, _, _, _, _)
FindBucketFrom(rt, self, id, i, prefix, allowSplit) ==
    IF i >= BIT_SIZE
    THEN [found |-> FALSE, prefix |-> prefix, allowSplit |-> FALSE, nth |-> i, bit |-> FALSE]
    ELSE LET bit == at(id, i)
             allow == allowSplit /\ (bit = at(self, i))
         IN IF prefix \in DOMAIN rt.buckets
            THEN [found |-> TRUE, prefix |-> prefix, allowSplit |-> allow,
                  nth |-> i, bit |-> bit]
            ELSE FindBucketFrom(rt, self, id, i + 1,
                                Append(prefix, IF bit THEN 1 ELSE 0), allow)

FindBucketAllowsSplit(rt, self, id) ==
    [FindBucketFrom(rt, self, id, 0, << >>, TRUE) EXCEPT !.allowSplit = TRUE]

FindBucket(rt, self, id) == FindBucketFrom(rt, self, id, 0, << >>, TRUE)

\* RoutingTable.prototype._removeId: the table without id, and the contact
\* removed (NoContact for false)
RemoveNoId(rt, self, id) == [rt |-> rt, removed |-> NoContact]

RemoveId(rt, self, id) ==
    LET res == FindBucket(rt, self, id)
        store == rt.buckets[res.prefix].store
        hit == {i \in 1 .. Len(store) : equal(store[i].id, id)}
    IN [rt |-> [rt EXCEPT !.buckets[res.prefix].store = BucketRemove(store, id)],
        removed |-> IF hit = {} THEN NoContact ELSE store[CHOOSE i \in hit : TRUE]]

\* RoutingTable.prototype._addRemoveEndpoint(endpoint, id); hasId tells that
\* an id was given
AddEndpointOnly(rt, self, endpoint, hasId, id) ==
    IF hasId THEN [rt EXCEPT !.endpoints = Put(@, endpoint, id)] ELSE rt

AddRemoveEndpoint(rt, self, endpoint, hasId, id) ==
    LET rt1 == IF endpoint \in DOMAIN rt.endpoints
                  /\ (~hasId \/ ~equal(rt.endpoints[endpoint], id))
               THEN RemoveId([rt EXCEPT !.endpoints = Drop(@, endpoint)], self,
                             rt.endpoints[endpoint]).rt
               ELSE rt
    IN IF hasId THEN [rt1 EXCEPT !.endpoints = Put(@, endpoint, id)] ELSE rt1

\* RoutingTable.prototype._splitAndStore: the bucket res.prefix is replaced by
\* two, and the contact is stored in the one of its bit, if there is room
SplitAndStore(rt, contact, res) ==
    LET old == rt.buckets[res.prefix].store
        left == Append(res.prefix, 0)
        right == Append(res.prefix, 1)
        mine == IF res.bit THEN right ELSE left
        split == [p \in (DOMAIN rt.buckets \ {res.prefix}) \cup {left, right} |->
                     IF p = left
                     THEN [store |-> BucketSplit(old, res.nth, FALSE), refreshed |-> FALSE]
                     ELSE IF p = right
                     THEN [store |-> BucketSplit(old, res.nth, TRUE), refreshed |-> FALSE]
                     ELSE rt.buckets[p]]
    IN [rt EXCEPT !.buckets =
           [split EXCEPT ![mine].store = BucketStore(split[mine].store, contact).store]]

\* RoutingTable.prototype.store: the table after it and what it returns, the
\* oldest contact of a full bucket or null (NoContact)
RtStoreEvicts(rt, self, contact) ==
    LET res == FindBucket(rt, self, contact.id)
        store == rt.buckets[res.prefix].store
        st == BucketStore(store, contact)
    IN IF st.ok
       THEN [rt |-> AddRemoveEndpoint(
                        [rt EXCEPT !.buckets[res.prefix].store = st.store],
                        self, contact.endpoint, TRUE, contact.id),
             old |-> NoContact]
       ELSE [rt |-> [rt EXCEPT !.buckets[res.prefix].store = Tail(store)],
             old |-> store[1]]

RtStoreOther(rt, self, contact) ==
    LET res == FindBucket(rt, self, contact.id)
        st == BucketStore(rt.buckets[res.prefix].store, contact)
    IN IF st.ok
       THEN [rt |-> AddRemoveEndpoint(
                        [rt EXCEPT !.buckets[res.prefix].store = st.store],
                        self, contact.endpoint, TRUE, contact.id),
             old |-> NoContact]
       ELSE IF ~res.allowSplit \/ res.nth + 1 = BIT_SIZE
       THEN [rt |-> rt, old |-> rt.buckets[res.prefix].store[1]]
       ELSE [rt |-> AddRemoveEndpoint(SplitAndStore(rt, contact, res),
                                      self, contact.endpoint, TRUE, contact.id),
             old |-> NoContact]

RtStoreNoSelfCheck(rt, self, contact) == RtStoreOther(rt, self, contact)

RtStore(rt, self, contact) ==
    IF equal(contact.id, self) THEN [rt |-> rt, old |-> NoContact]
    ELSE RtStoreOther(rt, self, contact)

\* RoutingTable.prototype.remove
RtRemove(rt, self, contact) ==
    LET r == RemoveId(rt, self, contact.id)
        endpoint == IF r.removed # NoContact THEN r.removed.endpoint
                    ELSE contact.endpoint
    IN AddRemoveEndpoint(r.rt, self, endpoint, FALSE, 0)

\* what RoutingTable.prototype.remove returns: !!c, c being the contact that
\* _removeId removed
RtRemoveReturns(rt, self, contact) ==
    RemoveId(rt, self, contact.id).removed # NoContact

\* RoutingTable.prototype._find on the subtree of prefix
RECURSIVE FindIn(_, _, _, _, _)
FindIn(rt, id, prefix, count, slots) ==
    IF prefix \in DOMAIN rt.buckets
    THEN LLInsertMany(id, count, slots, rt.buckets[prefix].store)
    ELSE LET b == IF at(id, Len(prefix)) THEN 1 ELSE 0
             main == FindIn(rt, id, Append(prefix, b), count, slots)
         IN IF Len(main) < count
            THEN FindIn(rt, id, Append(prefix, 1 - b), count, main)
            ELSE main

\* RoutingTable.prototype.find
RECURSIVE LeafOf(_, _, _)
LeafOf(rt, id, prefix) ==
    IF prefix \in DOMAIN rt.buckets THEN prefix
    ELSE LeafOf(rt, id, Append(prefix, IF at(id, Len(prefix)) THEN 1 ELSE 0))

RtFindInLeaf(rt, id, count) ==
    LLGetContacts(LLInsertMany(id, count, << >>,
                               rt.buckets[LeafOf(rt, id, << >>)].store))

RtFind(rt, id, count) == LLGetContacts(FindIn(rt, id, << >>, count, << >>))

\* RoutingTable.prototype.markRefreshed
MarkRefreshed(rt, self, id) ==
    [rt EXCEPT !.buckets[FindBucket(rt, self, id).prefix].refreshed = TRUE]

\* RoutingTable.prototype._eachBucket: the leaves under prefix, left to right
RECURSIVE EachBucket(_, _)
EachBucket(rt, prefix) ==
    IF prefix \in DOMAIN rt.buckets THEN << prefix >>
    ELSE EachBucket(rt, Append(prefix, 0)) \o EachBucket(rt, Append(prefix, 1))

\* the contacts of the table
RtContacts(rt) ==
    UNION {{rt.buckets[p].store[i] : i \in 1 .. Len(rt.buckets[p].store)} :
              p \in DOMAIN rt.buckets}

\* Bucket.prototype.countClosestNodes(id, refId): the contacts of the bucket
\* for which refId.compareDistance(id, contact.id) > 0
BucketCountClosestNodes(store, id, refId) ==
    Len(SelectSeq(store, LAMBDA c : compareDistance(refId, id, c.id) > 0))

\* RoutingTable.prototype.countClosestNodes(id): the sum over _eachBucket
RECURSIVE CountOver(_, _, _, _)
CountOver(rt, self, id, leaves) ==
    IF leaves = << >> THEN 0
    ELSE BucketCountClosestNodes(rt.buckets[Head(leaves)].store, id, self)
         + CountOver(rt, self, id, Tail(leaves))

RtCountClosestNodes(rt, self, id) == CountOver(rt, self, id, EachBucket(rt, << >>))

\* ------------------------------------------------------------- the Dht node
Nodes == 1 .. NumNodes
NodeId(n) == (5 * n) % Pow2(BIT_SIZE)
NodeEndpoint(n) == 8000 + n
ForeignEndpoints == {9001}
ForeignIds == {1, Pow2(BIT_SIZE) - 1}
Endpoints == {NodeEndpoint(n) : n \in Nodes} \cup ForeignEndpoints
NodeAt(endpoint) == CHOOSE n \in Nodes : NodeEndpoint(n) = endpoint
Keys == {<< "k" >>}
Values == {<< "v" >>}
RandomBits == {0, Pow2(BIT_SIZE) - 1}
ExpireTimeMiliseconds == 86410000
ReplicateTimeMiliseconds == 3600000
\* the string that date + number is, date being a Date: the text of the date
\* followed by the digits of the number
DateString(date, number) == << "Date", date, number >>

\* Dht.prototype._findNodeOrValue: the test of its second line reads key, a
\* name that is declared nowhere, and the call ends with a ReferenceError
FindNodeOrValue(contact, targetId, idkey, subkey) == "ReferenceError"

\* Lookup.proceed on the seeds of the routing table, with the Dht's helper:
\* called tells that the callback was called, with contacts; threw that the
\* helper was called, and threw
DhtLookup(id, idkey, subkey, seeds) ==
    LET r == Proceed(LLInsertMany(id, BucketSize, << >>, seeds), 0, FALSE)
    IN [called |-> r.called,
        contacts |-> LLGetContacts(r.list),
        threw |-> r.issued # << >>
                  /\ FindNodeOrValue(r.issued[1], id, idkey, subkey) = "ReferenceError"]

\* Dht.prototype.iterativeFindNode
IterativeFindNode(rt, self, id) ==
    LET l == DhtLookup(id, Undefined, Undefined, RtFind(rt, id, Concurrency))
    IN [routes |-> MarkRefreshed(rt, self, id), called |-> l.called,
        contacts |-> l.contacts, threw |-> l.threw]

\* RoutingTable.prototype.refresh with Bucket.prototype.refresh: a lookup of a
\* random id of the bucket (the bits rnd under the prefix of the bucket) for
\* every bucket that no lookup has refreshed; an exception ends the loop
RECURSIVE RefreshFrom(_, _, _, _)
RefreshFrom(rt, self, leaves, rnd) ==
    IF leaves = << >> THEN [routes |-> rt, threw |-> FALSE]
    ELSE IF rt.buckets[Head(leaves)].refreshed
    THEN RefreshFrom(rt, self, Tail(leaves), rnd)
    ELSE LET f == IterativeFindNode(rt, self, setPrefix(rnd, Head(leaves)))
         IN IF f.threw THEN [routes |-> f.routes, threw |-> TRUE]
            ELSE RefreshFrom(f.routes, self, Tail(leaves), rnd)

RtRefresh(rt, self, rnd) == RefreshFrom(rt, self, EachBucket(rt, << >>), rnd)

\* expire < now in Dht.prototype._expireCache, expire being the string that
\* _storeToCache made of a Date and a number: it is compared as NaN
ExpiredNow(expire) == FALSE

\* Dht.prototype._expireCache
ExpireCache(cache) ==
    [idkey \in DOMAIN cache |->
        [subkey \in {s \in DOMAIN cache[idkey] :
                        cache[idkey][s].expire = Null
                        \/ ~ExpiredNow(cache[idkey][s].expire)} |->
            cache[idkey][subkey]]]

\* Dht.prototype._storeToCache for a subkey that is a string, at the time
\* date; expireTimeout is 0 for null
StoreToCacheKeepFirst(cache, idkey, subkey, value, expireTimeout, date) ==
    IF idkey \in DOMAIN cache /\ subkey \in DOMAIN cache[idkey] THEN cache
    ELSE LET c1 == IF idkey \in DOMAIN cache THEN cache ELSE Put(cache, idkey, EmptyMap)
         IN [c1 EXCEPT ![idkey] =
                Put(@, subkey, [value |-> value,
                                expire |-> IF expireTimeout # 0
                                           THEN DateString(date, expireTimeout)
                                           ELSE Null,
                                refresh |-> date])]

StoreToCache(cache, idkey, subkey, value, expireTimeout, date) ==
    LET c1 == IF idkey \in DOMAIN cache THEN cache ELSE Put(cache, idkey, EmptyMap)
    IN [c1 EXCEPT ![idkey] =
           Put(@, subkey, [value |-> value,
                           expire |-> IF expireTimeout # 0
                                      THEN DateString(date, expireTimeout)
                                      ELSE Null,
                           refresh |-> date])]

\* Dht.prototype._findFromCache: kind is "none" for {value: undefined}, "one"
\* for an entry and "all" for the values and expires of all the subkeys
NotFound == [kind |-> "none", value |-> Undefined, expire |-> Undefined,
             values |-> EmptyMap, expires |-> EmptyMap]
FindFromCache(cache0, idkey, subkey) ==
    LET cache == ExpireCache(cache0)
    IN IF idkey \notin DOMAIN cache THEN NotFound
       ELSE IF DOMAIN cache[idkey] = {} THEN NotFound
       ELSE IF subkey = Undefined \/ subkey = Null
       THEN [NotFound EXCEPT !.kind = "all",
                !.values = [k \in DOMAIN cache[idkey] |-> cache[idkey][k].value],
                !.expires = [k \in DOMAIN cache[idkey] |-> cache[idkey][k].expire]]
       ELSE IF subkey \notin DOMAIN cache[idkey] THEN NotFound
       ELSE [NotFound EXCEPT !.kind = "one", !.value = cache[idkey][subkey].value,
                             !.expire = cache[idkey][subkey].expire]

\* a value that is false in a condition: undefined, null or the empty string
Falsy(x) == x = Undefined \/ x = Null \/ x = << >>

\* Dht.prototype.peek on the Id of a key: null when the cache has no value
PeekId(cache, keyid, subkey) ==
    LET r == FindFromCache(cache, toString(keyid),
                           IF Falsy(subkey) THEN toString(keyid) ELSE subkey)
    IN IF r.kind = "none" THEN Null ELSE r.value

\* Dht.prototype.peek(key) and peek(key, subkey) on a key that is a string
peek(cache, key, subkey) == PeekId(cache, fromKey(key), subkey)

\* an RPC in flight: the request (phase "req") of node from to the endpoint
\* to, or its response (phase "res"); cont names the callback that waits for it
Msg(type, from, to, cont, op, old, new, idkey, subkey, value, expire) ==
    [type |-> type, phase |-> "req", from |-> from, to |-> to, cont |-> cont,
     op |-> op, old |-> old, new |-> new, idkey |-> idkey, subkey |-> subkey,
     value |-> value, expire |-> expire, remoteId |-> -1]

PingMsg(from, to, cont, op, old, new) ==
    Msg("ping", from, to, cont, op, old, new, << >>, << >>, << >>, 0)

\* a call of the Dht API and what came of it: remain is the counter of
\* bootstrap, stores the store RPCs sent and done the stores completed, called
\* the number of calls of the callback, with err and result, threw tells that
\* an exception ended the call or one of its callbacks, lookup that a lookup
\* was started, emptyTable and held what the node and the network held before
NewOp(kind, n, key, subkey, value) ==
    [kind |-> kind, node |-> n, key |-> key, subkey |-> subkey, value |-> value,
     remain |-> 0, pings |-> 0, stores |-> 0, done |-> 0, called |-> 0,
     err |-> Null, result |-> Undefined, threw |-> FALSE, lookup |-> FALSE,
     shortlist |-> << >>,
     emptyTable |-> RtContacts(dhtRoutes[n]) = {},
     held |-> key # Undefined
              /\ \E m \in Nodes :
                    /\ toString(fromKey(key)) \in DOMAIN dhtCache[m]
                    /\ DOMAIN dhtCache[m][toString(fromKey(key))] # {}]

\* Dht.prototype._discovered: the routing table and _pendingContact after it,
\* and the ping it sends to the oldest contact of a full bucket
DiscoveredUnguarded(rt, self, pending, n, id, endpoint) ==
    LET s == RtStore(rt, self, Contact(id, endpoint))
    IN IF s.old # NoContact
       THEN [routes |-> s.rt, pending |-> s.old,
             msgs |-> {PingMsg(n, s.old.endpoint, "onPong", 0, s.old,
                               Contact(id, endpoint))}]
       ELSE [routes |-> s.rt, pending |-> pending, msgs |-> {}]

Discovered(rt, self, pending, n, id, endpoint) ==
    LET s == RtStore(rt, self, Contact(id, endpoint))
    IN IF s.old # NoContact /\ pending = NoContact
       THEN [routes |-> s.rt, pending |-> s.old,
             msgs |-> {PingMsg(n, s.old.endpoint, "onPong", 0, s.old,
                               Contact(id, endpoint))}]
       ELSE [routes |-> s.rt, pending |-> pending, msgs |-> {}]

\* onPong, the callback of the ping of _discovered (after _pendingContact is
\* reset): the routing table after it
OnPong(rt, self, old, new, err, remoteId) ==
    IF ~(err \/ ~equal(remoteId, new.id)) THEN rt
    ELSE RtStore(RtRemove(rt, self, old), self, new).rt

\* bootstrapSome, the callback of the pings of Dht.prototype.bootstrap: the
\* routing table and the call (op) after it. On an error of the last ping it
\* calls self._bootstrapLookup, which no code defines: a TypeError.
BootstrapSome(rt, self, op, endpoint, err, remoteId) ==
    IF err
    THEN [routes |-> rt,
          op |-> [op EXCEPT !.remain = @ - 1, !.threw = @ \/ op.remain - 1 = 0]]
    ELSE LET s == RtStore(rt, self, Contact(remoteId, endpoint))
             f == IterativeFindNode(s.rt, self, self)
         IN IF op.remain - 1 = 0
            THEN [routes |-> f.routes,
                  op |-> [op EXCEPT !.remain = @ - 1, !.lookup = TRUE,
                                    !.threw = @ \/ f.threw,
                                    !.called = @ + (IF f.called THEN 1 ELSE 0)]]
            ELSE [routes |-> s.rt, op |-> [op EXCEPT !.remain = @ - 1]]

\* Dht.prototype._storeToMany with _storeTo, asyncMap being given the callback
\* of the call: the contact that is the node itself is stored to the cache,
\* every other one is sent a store RPC
StoreToMany(n, cache, idkey, subkey, value, contacts, expireTimeout, op) ==
    LET local == {i \in 1 .. Len(contacts) : equal(contacts[i].id, NodeId(n))}
    IN [cache |-> IF local = {} THEN cache
                  ELSE StoreToCache(cache, idkey, subkey, value, expireTimeout, now),
        msgs |-> {Msg("store", n, contacts[i].endpoint, "storeTo", op, NoContact,
                      NoContact, idkey, subkey, value,
                      IF expireTimeout # 0 THEN expireTimeout
                      ELSE ExpireTimeMiliseconds) :
                     i \in (1 .. Len(contacts)) \ local},
        local |-> Cardinality(local)]

\* the callback of the store RPC of _storeTo, under asyncMap: the callback of
\* the call is called when the last store has completed
StoreDone(op) ==
    [op EXCEPT !.done = @ + 1,
               !.called = @ + (IF op.done + 1 = Len(op.shortlist) THEN 1 ELSE 0)]

\* Dht.prototype._iterativeFindValue: when the lookup calls back it does so
\* with no contact and no value, and the callback of the call gets (null,
\* undefined)
IterativeFindValue(rt, self, idkey, subkey) ==
    LET l == DhtLookup(fromHex(idkey), idkey, subkey,
                       RtFind(rt, fromHex(idkey), Concurrency))
    IN [routes |-> MarkRefreshed(rt, self, fromHex(idkey)), called |-> l.called,
        threw |-> l.threw, err |-> Null, value |-> Undefined]

\* The callback that Dht.prototype._iterativeFindValue gives to the lookup, up
\* to its call of _storeTo: call is the call of the callback (CbCall). The
\* result tells whether a store is sent, to which contact, and with which
\* subkeys and values (a map from the subkeys).
FindValueStore(subkey, call) ==
    LET none == [sent |-> FALSE, to |-> NoContact, values |-> EmptyMap]
    IN IF call.contacts = << >> THEN none
       ELSE LET closestContact == call.contacts[1]
            IN IF call.single
               THEN IF equal(call.srcContact.id, closestContact.id) THEN none
                    ELSE [sent |-> TRUE, to |-> closestContact,
                          values |-> [k \in {subkey} |-> call.value]]
               ELSE LET keep == {k \in DOMAIN call.values :
                                    ~equal(call.srcMap[k].id, closestContact.id)}
                    IN IF keep = {} THEN none
                       ELSE [sent |-> TRUE, to |-> closestContact,
                             values |-> [k \in keep |-> call.values[k]]]

\* replicate < now in Dht.prototype._replicateCache, replicate being the
\* string that entry.refresh + replicateTimeMiliseconds is and now a Date: the
\* string is compared as a number, NaN, and the test is false
ReplicateDue(refresh, date) == FALSE

\* Dht.prototype._replicateCache(now) at the time date: the cache after it, the
\* entries that were handed to _replicate, and what it returns. Its variable
\* nextReplicate is returned by no statement: the call yields undefined.
ReplicateCache(cache0, date) ==
    LET cache == ExpireCache(cache0)
        due == {e \in UNION {{<< i, k >> : k \in DOMAIN cache[i]} : i \in DOMAIN cache} :
                   ReplicateDue(cache[e[1]][e[2]].refresh, date)}
    IN [cache |-> [idkey \in DOMAIN cache |->
                      [subkey \in DOMAIN cache[idkey] |->
                          IF << idkey, subkey >> \in due
                          THEN [cache[idkey][subkey] EXCEPT !.refresh = date]
                          ELSE cache[idkey][subkey]]],
        replicated |-> due,
        next |-> Undefined]

\* replicateLoop of the constructor at the time date: the timer is armed with
\* setTimeout(replicateLoop, nextTime - now), the delay being undefined - now,
\* NaN, which setTimeout takes as 1 millisecond
ReplicateLoop(cache0, date) ==
    LET r == ReplicateCache(cache0, date)
    IN [cache |-> r.cache, replicated |-> r.replicated,
        timer |-> [ran |-> date, next |-> r.next, due |-> date + 1]]

\* the Dht nodes after construction: nothing known, nothing stored
DhtIdle ==
    /\ dhtRoutes = [n \in Nodes |-> EmptyTable]
    /\ dhtCache = [n \in Nodes |-> EmptyMap]
    /\ dhtPendingContact = [n \in Nodes |-> NoContact]
    /\ dhtRefreshTimer = [n \in Nodes |-> "off"]
    /\ dhtReplicateTimer = [n \in Nodes |-> ReplicateLoop(EmptyMap, 0).timer]
    /\ now = 0
    /\ net = {}
    /\ ops = << >>
    /\ foreign = 0

InitLookup ==
    /\ lkPc = "new"
    /\ lkTargetId \in LkTargets
    /\ lkSubkey \in {Undefined, Null, << "a" >>}
    /\ \E seeds \in SUBSET LkContacts :
          /\ Cardinality(seeds) <= Concurrency
          /\ lkList = LLInsertMany(lkTargetId, BucketSize, << >>, SetToSeq(seeds))
    /\ lkConcurrents = 0
    /\ lkAbort = FALSE
    /\ lkValue = EmptyMap
    /\ lkValueTimeout = EmptyMap
    /\ lkSrccontact = EmptyMap
    /\ lkPending = [i \in LkIds |-> 0]
    /\ lkCalls = << >>
    /\ lkThrew = FALSE
    /\ lkLast = [i \in LkIds |-> "none"]
    /\ lkReported = [k \in LkSubKeys |-> {}]
    /\ DhtIdle

\* Lookup.proceed(...): lookup.proceed(cb) on the new Lookup
LookupStart ==
    /\ lkPc = "new"
    /\ \E r \in {Proceed(lkList, lkConcurrents, lkAbort)} :
          /\ lkList' = r.list
          /\ lkConcurrents' = r.concurrents
          /\ lkPending' = PendingAdd(lkPending, r.issued)
          /\ lkCalls' = IF r.called
                        THEN Append(lkCalls, CbCall(LLGetContacts(r.list), FALSE,
                                        Undefined, NoContact, lkValue, lkSrccontact))
                        ELSE lkCalls
    /\ lkPc' = "running"
    /\ UNCHANGED << lkTargetId, lkSubkey, lkAbort, lkValue, lkValueTimeout,
                    lkSrccontact, lkThrew, lkLast, lkReported >>
    /\ UNCHANGED dhtVars

\* The error branch of the response handler: self._list.remove(contact)
OnErrorKeep(list, contact) == list

OnError(list, contact) == LLRemove(list, contact)

\* The value branch of the response handler, list1 being the shortlist after
\* insertMany(contacts): on a single subkey cb is called with the value and
\* the lookup aborts; on all subkeys the values are merged.
OnValueNoAbort(st0, list1, contact, ans) ==
    IF lkSubkey # Null
    THEN [st0 EXCEPT !.list = list1,
                     !.calls = Append(st0.calls,
                         CbCall(LLGetContacts(list1), TRUE, ans.value,
                                contact, EmptyMap, EmptyMap))]
    ELSE LET m == MergeValues(lkTargetId,
                      [value |-> st0.value, valueTimeout |-> st0.valueTimeout,
                       srccontact |-> st0.srccontact, threw |-> FALSE],
                      KeysOf(ans.values), contact, ans.values, ans.timeout)
         IN [st0 EXCEPT !.list = list1, !.value = m.value,
                        !.valueTimeout = m.valueTimeout,
                        !.srccontact = m.srccontact, !.threw = m.threw]

OnValue(st0, list1, contact, ans) ==
    IF lkSubkey # Null
    THEN [st0 EXCEPT !.list = list1,
                     !.calls = Append(st0.calls,
                         CbCall(LLGetContacts(list1), TRUE, ans.value,
                                contact, EmptyMap, EmptyMap)),
                     !.abort = TRUE]
    ELSE LET m == MergeValues(lkTargetId,
                      [value |-> st0.value, valueTimeout |-> st0.valueTimeout,
                       srccontact |-> st0.srccontact, threw |-> FALSE],
                      KeysOf(ans.values), contact, ans.values, ans.timeout)
         IN [st0 EXCEPT !.list = list1, !.value = m.value,
                        !.valueTimeout = m.valueTimeout,
                        !.srccontact = m.srccontact, !.threw = m.threw]

\* The body of the response handler of Lookup.prototype._forContact up to the
\* decrement of _concurrents, when the lookup has not aborted. The result is
\* [list, abort, value, valueTimeout, srccontact, threw, calls].
HandlerBody(contact, err, contacts, ans) ==
    LET st0 == [list |-> lkList, abort |-> lkAbort, value |-> lkValue,
                valueTimeout |-> lkValueTimeout, srccontact |-> lkSrccontact,
                threw |-> FALSE, calls |-> lkCalls]
    IN IF err
       THEN [st0 EXCEPT !.list = OnError(lkList, contact)]
       ELSE LET list1 == LLInsertMany(lkTargetId, BucketSize, lkList, SetToSeq(contacts))
            IN IF ans.kind = "none"
               THEN [st0 EXCEPT !.list = list1]
               ELSE OnValue(st0, list1, contact, ans)

\* The test that ends the response handler, on the decremented _concurrents:
\* the last one of a round to respond starts the next round
EveryoneResponded(concurrents, abort) == concurrents = 0 /\ ~abort

\* The test that opens the response handler: if(self._abort)
AbortIgnored(abort) == FALSE

Aborted(abort) == abort

\* The response handler of Lookup.prototype._forContact as a whole: the state
\* of the lookup after it, with the contacts it handed to _forContact (issued).
HandlerStep(contact, err, contacts, ans) ==
    IF Aborted(lkAbort)
    THEN [list |-> lkList, abort |-> lkAbort, value |-> lkValue,
          valueTimeout |-> lkValueTimeout, srccontact |-> lkSrccontact,
          threw |-> lkThrew, calls |-> lkCalls,
          concurrents |-> lkConcurrents - 1, issued |-> << >>]
    ELSE LET h == HandlerBody(contact, err, contacts, ans)
             base == [list |-> h.list, abort |-> h.abort, value |-> h.value,
                      valueTimeout |-> h.valueTimeout, srccontact |-> h.srccontact,
                      threw |-> lkThrew \/ h.threw, calls |-> h.calls,
                      concurrents |-> lkConcurrents, issued |-> << >>]
         IN IF h.threw
            THEN base
            ELSE IF EveryoneResponded(lkConcurrents - 1, h.abort)
            THEN LET r == Proceed(h.list, lkConcurrents - 1, h.abort)
                 IN [base EXCEPT
                        !.list = r.list,
                        !.concurrents = r.concurrents,
                        !.issued = r.issued,
                        !.calls = IF r.called
                                  THEN Append(h.calls,
                                           CbCall(LLGetContacts(r.list), FALSE, Undefined,
                                                  NoContact, h.value, h.srccontact))
                                  ELSE h.calls]
            ELSE [base EXCEPT !.concurrents = lkConcurrents - 1]

\* the subkeys that the answer of a responder carries a value for
ReportedKeys(ans) ==
    IF ans.kind = "single" THEN {lkSubkey}
    ELSE IF ans.kind = "all" THEN DOMAIN ans.values
    ELSE {}

\* The callback given to opts.findNodeOrValue in Lookup.prototype._forContact:
\* the RPC to contact completes with an error, or with contacts and answer ans.
ForContactDone(contact, err, contacts, ans) ==
    /\ lkPc = "running"
    /\ lkPending[contact.id] > 0
    /\ \E n \in {HandlerStep(contact, err, contacts, ans)} :
          /\ lkList' = n.list
          /\ lkConcurrents' = n.concurrents
          /\ lkAbort' = n.abort
          /\ lkValue' = n.value
          /\ lkValueTimeout' = n.valueTimeout
          /\ lkSrccontact' = n.srccontact
          /\ lkThrew' = n.threw
          /\ lkCalls' = n.calls
          /\ lkPending' = PendingAdd([lkPending EXCEPT ![contact.id] = @ - 1], n.issued)
    /\ lkLast' = [lkLast EXCEPT ![contact.id] = IF err THEN "err" ELSE "ok"]
    /\ lkReported' = [k \in LkSubKeys |->
                         IF k \in ReportedKeys(ans) THEN lkReported[k] \cup {contact.id}
                         ELSE lkReported[k]]
    /\ UNCHANGED << lkPc, lkTargetId, lkSubkey >>
    /\ UNCHANGED dhtVars

\* an RPC issued by the lookup fails
LookupRpcError ==
    \E c \in {x \in LkContacts : lkPending[x.id] > 0} :
        ForContactDone(c, TRUE, {}, NoAnswer)

\* an RPC issued by the lookup is answered; the contacts of a reply come from
\* the responder's routing table, which never holds the responder itself
LookupRpcReply ==
    \E c \in {x \in LkContacts : lkPending[x.id] > 0} :
        \E ans \in LkAnswers(lkSubkey, c) :
            \E cs \in {x \in SUBSET (LkContacts \ {c}) : Cardinality(x) <= MaxReply} :
                ForContactDone(c, FALSE, cs, ans)

NextLookup == LookupStart \/ LookupRpcError \/ LookupRpcReply

SpecLookup == InitLookup /\ [][NextLookup]_vars

\* ---------------------------------------------------- the Dht in a network
\* no lookup object is observed
LookupIdle ==
    /\ lkPc = "idle"
    /\ lkTargetId = 0
    /\ lkSubkey = Undefined
    /\ lkList = << >>
    /\ lkConcurrents = 0
    /\ lkAbort = FALSE
    /\ lkValue = EmptyMap
    /\ lkValueTimeout = EmptyMap
    /\ lkSrccontact = EmptyMap
    /\ lkPending = [i \in LkIds |-> 0]
    /\ lkCalls = << >>
    /\ lkThrew = FALSE
    /\ lkLast = [i \in LkIds |-> "none"]
    /\ lkReported = [k \in LkSubKeys |-> {}]

InitDht == LookupIdle /\ DhtIdle

\* the state of node n after a step: gone are the messages it consumed, sent
\* the ones it sent
Commit(n, routes, cache, pending, timer, gone, sent, ops2) ==
    /\ dhtRoutes' = [dhtRoutes EXCEPT ![n] = routes]
    /\ dhtCache' = [dhtCache EXCEPT ![n] = cache]
    /\ dhtPendingContact' = [dhtPendingContact EXCEPT ![n] = pending]
    /\ dhtRefreshTimer' = [dhtRefreshTimer EXCEPT ![n] = timer]
    /\ net' = (net \ gone) \cup sent
    /\ ops' = ops2
    /\ UNCHANGED << dhtReplicateTimer, now >>
    /\ UNCHANGED lookupVars

\* Dht.prototype.bootstrap(seeds), at most once per node: the pings are sent,
\* then refreshLoop runs the first refresh and arms its timer
Bootstrap ==
    \E n \in Nodes, seeds \in SUBSET Endpoints, rnd \in RandomBits :
        /\ Cardinality(seeds) <= MaxSeeds
        /\ Len(ops) + foreign < MaxOps
        /\ \A i \in 1 .. Len(ops) : ~(ops[i].kind = "bootstrap" /\ ops[i].node = n)
        /\ IF seeds = {}
           THEN Commit(n, dhtRoutes[n], dhtCache[n], dhtPendingContact[n],
                       dhtRefreshTimer[n], {}, {},
                       Append(ops, [NewOp("bootstrap", n, Undefined, Undefined, Undefined)
                                       EXCEPT !.called = 1]))
           ELSE \E r \in {RtRefresh(dhtRoutes[n], NodeId(n), rnd)} :
                   Commit(n, r.routes, dhtCache[n], dhtPendingContact[n],
                          IF r.threw THEN dhtRefreshTimer[n] ELSE "armed",
                          {},
                          {PingMsg(n, e, "bootstrapSome", Len(ops) + 1, NoContact,
                                   NoContact) : e \in seeds},
                          Append(ops, [NewOp("bootstrap", n, Undefined, Undefined, Undefined)
                                          EXCEPT !.remain = Cardinality(seeds),
                                                 !.pings = Cardinality(seeds),
                                                 !.threw = r.threw]))
        /\ UNCHANGED foreign

\* the timer of refreshLoop fires: an exception of the refresh ends the loop
RefreshTick ==
    \E n \in Nodes, rnd \in RandomBits :
        /\ dhtRefreshTimer[n] = "armed"
        /\ \E r \in {RtRefresh(dhtRoutes[n], NodeId(n), rnd)} :
              Commit(n, r.routes, dhtCache[n], dhtPendingContact[n],
                     IF r.threw THEN "threw" ELSE "armed", {}, {}, ops)
        /\ UNCHANGED foreign

\* Dht.prototype.multiset(key, subkey, value, cb)
MultisetCall(kind, n, key, subkey, value) ==
    /\ Len(ops) + foreign < MaxOps
    /\ \E f \in {IterativeFindNode(dhtRoutes[n], NodeId(n), fromKey(key))} :
       \E s \in {IF f.called
                 THEN StoreToMany(n, dhtCache[n], toString(fromKey(key)), subkey,
                                  value, f.contacts, 0, Len(ops) + 1)
                 ELSE [cache |-> dhtCache[n], msgs |-> {}, local |-> 0]} :
          Commit(n, f.routes, s.cache, dhtPendingContact[n], dhtRefreshTimer[n],
                 {}, s.msgs,
                 Append(ops, [NewOp(kind, n, key, subkey, value)
                                 EXCEPT !.lookup = TRUE,
                                        !.threw = f.threw,
                                        !.shortlist = IF f.called THEN f.contacts ELSE << >>,
                                        !.stores = Cardinality(s.msgs),
                                        !.done = s.local,
                                        !.called = IF f.called /\ s.msgs = {}
                                                   THEN 1 ELSE 0]))
    /\ UNCHANGED foreign

\* Dht.prototype.set(key, value, cb)
Set ==
    \E n \in Nodes, key \in Keys, value \in Values :
        MultisetCall("set", n, key, key, value)

\* Dht.prototype.multiset with a subkey of its own
Multiset ==
    \E n \in Nodes, key \in Keys, subkey \in LkSubKeys, value \in Values :
        MultisetCall("multiset", n, key, subkey, value)

\* Dht.prototype.multiget(key, subkey, cb)
MultigetCall(kind, n, key, subkey) ==
    /\ Len(ops) + foreign < MaxOps
    /\ IF ~Falsy(PeekId(dhtCache[n], fromKey(key), subkey)) /\ subkey # Undefined
       THEN Commit(n, dhtRoutes[n], ExpireCache(dhtCache[n]), dhtPendingContact[n],
                   dhtRefreshTimer[n], {}, {},
                   Append(ops, [NewOp(kind, n, key, subkey, Undefined)
                                   EXCEPT !.called = 1,
                                          !.result = PeekId(dhtCache[n], fromKey(key),
                                                            subkey)]))
       ELSE \E l \in {IterativeFindValue(dhtRoutes[n], NodeId(n),
                                         toString(fromKey(key)), subkey)} :
               Commit(n, l.routes, ExpireCache(dhtCache[n]), dhtPendingContact[n],
                      dhtRefreshTimer[n], {}, {},
                      Append(ops, [NewOp(kind, n, key, subkey, Undefined)
                                      EXCEPT !.lookup = TRUE,
                                             !.threw = l.threw,
                                             !.called = IF l.called THEN 1 ELSE 0,
                                             !.err = l.err,
                                             !.result = l.value]))
    /\ UNCHANGED foreign

\* Dht.prototype.get(key, cb)
Get == \E n \in Nodes, key \in Keys : MultigetCall("get", n, key, key)

\* Dht.prototype.getall(key, cb)
GetAll == \E n \in Nodes, key \in Keys : MultigetCall("getall", n, key, Null)

\* Dht.prototype._onPing and _onStore at node t, for a request that the node
\* or the peer of Id id at endpoint sent: sent are the messages that answer it
OnRequest(t, type, id, endpoint, idkey, subkey, value, expire, gone, sent) ==
    \E d \in {Discovered(dhtRoutes[t], NodeId(t), dhtPendingContact[t], t, id,
                         endpoint)} :
        Commit(t, d.routes,
               IF type = "store"
               THEN StoreToCache(dhtCache[t], idkey, subkey, value,
                                 IF expire # 0 THEN expire ELSE ExpireTimeMiliseconds,
                                 now)
               ELSE dhtCache[t],
               d.pending, dhtRefreshTimer[t], gone, sent \cup d.msgs, ops)

\* a request reaches the node it was sent to, which answers it
RpcDeliver ==
    \E m \in net :
        /\ m.phase = "req"
        /\ \E t \in Nodes : NodeEndpoint(t) = m.to
        /\ OnRequest(NodeAt(m.to), m.type, NodeId(m.from), NodeEndpoint(m.from),
                     m.idkey, m.subkey, m.value, m.expire, {m},
                     {[m EXCEPT !.phase = "res", !.remoteId = NodeId(NodeAt(m.to))]})
        /\ UNCHANGED foreign

\* a peer outside the network answers a request, under an Id of its choice
RpcForeignAnswer ==
    \E m \in net, id \in ForeignIds :
        /\ m.phase = "req"
        /\ m.to \in ForeignEndpoints
        /\ net' = (net \ {m}) \cup {[m EXCEPT !.phase = "res", !.remoteId = id]}
        /\ UNCHANGED << dhtRoutes, dhtCache, dhtPendingContact, dhtRefreshTimer,
                        dhtReplicateTimer, now, ops, foreign >>
        /\ UNCHANGED lookupVars

\* the callback of an RPC of node m.from, with an error or with the response
RpcCallback(m, err) ==
    /\ IF m.cont = "bootstrapSome"
       THEN \E b \in {BootstrapSome(dhtRoutes[m.from], NodeId(m.from), ops[m.op],
                                    m.to, err, m.remoteId)} :
               Commit(m.from, b.routes, dhtCache[m.from], dhtPendingContact[m.from],
                      dhtRefreshTimer[m.from], {m}, {}, [ops EXCEPT ![m.op] = b.op])
       ELSE IF m.cont = "onPong"
       THEN Commit(m.from,
                   OnPong(dhtRoutes[m.from], NodeId(m.from), m.old, m.new, err,
                          m.remoteId),
                   dhtCache[m.from], NoContact, dhtRefreshTimer[m.from], {m}, {}, ops)
       ELSE Commit(m.from, dhtRoutes[m.from], dhtCache[m.from],
                   dhtPendingContact[m.from], dhtRefreshTimer[m.from], {m}, {},
                   [ops EXCEPT ![m.op] = StoreDone(@)])
    /\ UNCHANGED foreign

\* an RPC fails: the request or its response is lost, the callback gets an error
RpcFail == \E m \in net : RpcCallback(m, TRUE)

\* a response reaches the node that sent the request
RpcRespond == \E m \in net : m.phase = "res" /\ RpcCallback(m, FALSE)

\* a peer outside the network pings a node
ForeignPing ==
    \E t \in Nodes, e \in ForeignEndpoints, id \in ForeignIds :
        /\ Len(ops) + foreign < MaxOps
        /\ OnRequest(t, "ping", id, e, << >>, << >>, << >>, 0, {}, {})
        /\ foreign' = foreign + 1

\* a peer outside the network sends a store RPC to a node
ForeignStore ==
    \E t \in Nodes, e \in ForeignEndpoints, id \in ForeignIds, key \in Keys,
       value \in Values, expire \in {0, ExpireTimeMiliseconds} :
        \E subkey \in {key, toString(fromKey(key))} :
            /\ Len(ops) + foreign < MaxOps
            /\ OnRequest(t, "store", id, e, toString(fromKey(key)), subkey, value,
                         expire, {}, {})
            /\ foreign' = foreign + 1

NextDht ==
    \/ Bootstrap
    \/ RefreshTick
    \/ Set
    \/ Multiset
    \/ Get
    \/ GetAll
    \/ RpcDeliver
    \/ RpcForeignAnswer
    \/ RpcFail
    \/ RpcRespond
    \/ ForeignPing
    \/ ForeignStore

SpecDht == InitDht /\ [][NextDht]_vars

\* ------------------------------------------------ the routing table alone
\* The routing table of node 1 under calls of store and remove, with contacts
\* of the local id and of ids near it and far from it, at a few endpoints.
\* Of the calls made, ops keeps the last one, with what it returned.
TableSelf == NodeId(1)
TableIds ==
    {TableSelf} \cup {Xor(TableSelf, d) : d \in 1 .. MaxTableIds}
                \cup {Xor(TableSelf, Pow2(BIT_SIZE) - 1)}
TableEndpoints == 1 .. MaxEndpoints
TableContacts == {Contact(i, e) : i \in TableIds, e \in TableEndpoints}

\* the ids of the contacts of the table
RtIds(rt) == {c.id : c \in RtContacts(rt)}

\* a call of store or remove: returned is the contact that store returned
\* (NoContact for null), owner the id that the endpoint of the contact was
\* registered to before the call (-1 for none), same tells that the call left
\* the table as it was, removed that remove returned true, lost are the
\* contacts that the table held before the call and not after it
TableOp(kind, contact, returned, before, after) ==
    [kind |-> kind, contact |-> contact, returned |-> returned,
     owner |-> IF contact.endpoint \in DOMAIN before.endpoints
               THEN before.endpoints[contact.endpoint] ELSE -1,
     same |-> before = after,
     removed |-> kind = "remove" /\ RtRemoveReturns(before, TableSelf, contact),
     lost |-> RtContacts(before) \ RtContacts(after)]

InitTable == LookupIdle /\ DhtIdle

TableCommit(rt, op) ==
    /\ dhtRoutes' = [dhtRoutes EXCEPT ![1] = rt]
    /\ ops' = << op >>
    /\ UNCHANGED << dhtCache, dhtPendingContact, dhtRefreshTimer,
                    dhtReplicateTimer, now, net, foreign >>
    /\ UNCHANGED lookupVars

\* RoutingTable.prototype.store(contact)
TableStore ==
    \E c \in TableContacts :
        \E r \in {RtStore(dhtRoutes[1], TableSelf, c)} :
            TableCommit(r.rt, TableOp("store", c, r.old, dhtRoutes[1], r.rt))

\* RoutingTable.prototype.remove(contact)
TableRemove ==
    \E c \in TableContacts :
        \E rt \in {RtRemove(dhtRoutes[1], TableSelf, c)} :
            TableCommit(rt, TableOp("remove", c, NoContact, dhtRoutes[1], rt))

NextTable == TableStore \/ TableRemove

SpecTable == InitTable /\ [][NextTable]_vars

\* ------------------------------------------- the split of the first bucket
\* The routing table of a node whose id is all zeros, under calls of store and
\* remove with BucketSize contacts of the near half of the id space (ids 1, 2,
\* ...) and BucketSize + 1 contacts of the far half (ids 0x80..01, 0x80..02,
\* ...), each at an endpoint of its own.
SplitSelf == 0
SplitIds ==
    [i \in 1 .. 2 * BucketSize + 1 |->
        IF i <= BucketSize THEN i ELSE Pow2(BIT_SIZE - 1) + (i - BucketSize)]
SplitContacts == [i \in DOMAIN SplitIds |-> Contact(SplitIds[i], i)]

\* how many of the contacts were stored so far, when the calls made are the
\* stores of the first contacts in their order and nothing else; -1 otherwise
SplitStep == IF ops = << >> THEN 0 ELSE ops[1].step

InitSplit == LookupIdle /\ DhtIdle

\* RoutingTable.prototype.store(contact)
SplitStore ==
    \E i \in DOMAIN SplitContacts :
        \E r \in {RtStore(dhtRoutes[1], SplitSelf, SplitContacts[i])} :
            TableCommit(r.rt, [kind |-> "store", contact |-> SplitContacts[i],
                               returned |-> r.old,
                               step |-> IF SplitStep = i - 1 THEN i ELSE -1])

\* RoutingTable.prototype.remove(contact)
SplitRemove ==
    \E i \in DOMAIN SplitContacts :
        TableCommit(RtRemove(dhtRoutes[1], SplitSelf, SplitContacts[i]),
                    [kind |-> "remove", contact |-> SplitContacts[i],
                     returned |-> NoContact, step |-> -1])

\* RoutingTable.prototype.countClosestNodes(id), for the id of a contact
SplitCount ==
    \E i \in DOMAIN SplitContacts :
        TableCommit(dhtRoutes[1],
                    [kind |-> "count", contact |-> SplitContacts[i],
                     returned |-> NoContact, step |-> -1,
                     count |-> RtCountClosestNodes(dhtRoutes[1], SplitSelf,
                                                   SplitIds[i])])

NextSplit == SplitStore \/ SplitRemove \/ SplitCount

SpecSplit == InitSplit /\ [][NextSplit]_vars

\* ------------------------------------------------------- one bucket alone
\* The root bucket of the routing table of node 1, as a Bucket object under
\* calls of its own store and remove. Of the calls made, ops keeps the last
\* one: ok is what store returned, before the contacts of the bucket before
\* the call, recency the ids held, from the one stored or re-stored least
\* recently to the one stored last.
TheBucket == dhtRoutes[1].buckets[<< >>].store

Recency == IF ops = << >> THEN << >> ELSE ops[1].recency

InitBucket == LookupIdle /\ DhtIdle

\* Bucket.prototype.store(contact)
BucketStoreCall ==
    \E c \in TableContacts :
        \E st \in {BucketStore(TheBucket, c)} :
            TableCommit([dhtRoutes[1] EXCEPT !.buckets[<< >>].store = st.store],
                        [kind |-> "store", contact |-> c, ok |-> st.ok,
                         before |-> TheBucket,
                         recency |-> IF st.ok
                                     THEN Append(SelectSeq(Recency,
                                                           LAMBDA i : i # c.id),
                                                 c.id)
                                     ELSE Recency])

\* Bucket.prototype.remove(contact)
BucketRemoveCall ==
    \E c \in TableContacts :
        TableCommit([dhtRoutes[1] EXCEPT !.buckets[<< >>].store =
                                            BucketRemove(TheBucket, c.id)],
                    [kind |-> "remove", contact |-> c, ok |-> TRUE,
                     before |-> TheBucket,
                     recency |-> SelectSeq(Recency, LAMBDA i : i # c.id)])

NextBucket == BucketStoreCall \/ BucketRemoveCall

SpecBucket == InitBucket /\ [][NextBucket]_vars

\* ------------------------------------------ one node and the peers around it
\* Node 1 answers the pings and the find_node requests of peers outside the
\* network: one peer in the near half of the id space, the others in the far
\* half, each at an endpoint of its own or, when it pings, at the endpoint of
\* the next peer.
\* Of the requests and pongs handled, ops keeps the last one; foreign counts
\* the requests.
PeerIdSeq ==
    [i \in 1 .. MaxPeers |->
        IF i = 1 THEN Xor(NodeId(1), 1)
        ELSE Xor(NodeId(1), Pow2(BIT_SIZE - 1) + (i - 2))]
PeerEndpoint(i) == 9000 + i
PeerHomeContacts == {Contact(PeerIdSeq[i], PeerEndpoint(i)) : i \in 1 .. MaxPeers}
PeerContacts ==
    PeerHomeContacts
    \cup {Contact(PeerIdSeq[i], PeerEndpoint((i % MaxPeers) + 1)) : i \in 1 .. MaxPeers}
PeerTargets == {NodeId(1), PeerIdSeq[MaxPeers]}

\* Dht.prototype._onFindNode, after _discovered: the contacts of the reply
OnFindNode(rt, id, targetId) ==
    SelectSeq(RtFind(rt, targetId, BucketSize), LAMBDA c : ~equal(c.id, id))

\* a request or a pong that the node handled. contact is the requestor (of a
\* pong: the contact that was discovered), old the contact that store returned
\* (of a pong: the contact that was pinged), guard tells that _pendingContact
\* was set before, sent is the number of eviction pings that the handler
\* sent, pings the number of eviction pings sent so far
PeerOp(kind, contact, target, reply, old, guard, err, remoteId, sent, pings) ==
    [kind |-> kind, contact |-> contact, target |-> target, reply |-> reply,
     old |-> old, guard |-> guard, err |-> err, remoteId |-> remoteId,
     sent |-> sent, pings |-> pings]

PingsSent == IF ops = << >> THEN 0 ELSE ops[1].pings

InitPeers == LookupIdle /\ DhtIdle

PeerCommit(rt, pending, gone, sent, op) ==
    /\ dhtRoutes' = [dhtRoutes EXCEPT ![1] = rt]
    /\ dhtPendingContact' = [dhtPendingContact EXCEPT ![1] = pending]
    /\ net' = (net \ gone) \cup sent
    /\ ops' = << op >>
    /\ UNCHANGED << dhtCache, dhtRefreshTimer, dhtReplicateTimer, now >>
    /\ UNCHANGED lookupVars

\* a request of the peer contact reaches the node: _discovered, then the reply
PeerRequest(kind, contact, target) ==
    /\ foreign < MaxRequests
    /\ \E d \in {Discovered(dhtRoutes[1], NodeId(1), dhtPendingContact[1], 1,
                            contact.id, contact.endpoint)} :
          PeerCommit(d.routes, d.pending, {}, d.msgs,
                     PeerOp(kind, contact, target,
                            IF kind = "findNode"
                            THEN OnFindNode(d.routes, contact.id, target)
                            ELSE << >>,
                            RtStore(dhtRoutes[1], NodeId(1), contact).old,
                            dhtPendingContact[1] # NoContact, FALSE, -1,
                            Cardinality(d.msgs),
                            PingsSent + Cardinality(d.msgs)))
    /\ foreign' = foreign + 1

\* Dht.prototype._onPing
PeerPing == \E c \in PeerContacts : PeerRequest("ping", c, 0)

\* Dht.prototype._onFindNode
PeerFindNode ==
    \E c \in PeerHomeContacts, target \in PeerTargets :
        PeerRequest("findNode", c, target)

\* onPong: the ping of _discovered completes with an error, or with the reply
\* of the peer at the endpoint, under the id remoteId
Pong(m, err, remoteId) ==
    /\ m.cont = "onPong"
    /\ PeerCommit(OnPong(dhtRoutes[1], NodeId(1), m.old, m.new, err, remoteId),
                  NoContact, {m}, {},
                  PeerOp("pong", m.new, 0, << >>, m.old,
                         dhtPendingContact[1] # NoContact, err, remoteId, 0,
                         PingsSent))
    /\ UNCHANGED foreign

PongFail == \E m \in net : Pong(m, TRUE, -1)

PongReply == \E m \in net : \E id \in {m.old.id, m.new.id} : Pong(m, FALSE, id)

NextPeers == PeerPing \/ PeerFindNode \/ PongFail \/ PongReply

SpecPeers == InitPeers /\ [][NextPeers]_vars

\* ------------------------------------------------- one node and its cache
\* Node 1 answers the store and find_value requests of two peers while the
\* clock advances and the timer of replicateLoop fires. Of the requests and
\* timer runs handled at the present time, ops keeps the last one; foreign
\* counts the requests.
CachePeers == {Contact(PeerIdSeq[i], PeerEndpoint(i)) : i \in {1, MaxPeers}}
CacheIdKeys == {toString(fromKey(k)) : k \in Keys}
CacheValues == {<< "v" >>, << "w" >>}
CacheExpires == {0, 1}
Times == {0, 1, ReplicateTimeMiliseconds, ExpireTimeMiliseconds}

\* val !== undefined in Dht.prototype._onFindValue, val being the object that
\* _findFromCache returned: it is never undefined
IsUndefined(val) == FALSE

\* Dht.prototype._onFindValue, after _discovered: the reply
OnFindValue(cache, rt, idkey, subkey, targetId) ==
    LET val == FindFromCache(cache, idkey, subkey)
    IN IF ~IsUndefined(val)
       THEN [hasValue |-> TRUE, value |-> val, hasContacts |-> FALSE, contacts |-> << >>]
       ELSE [hasValue |-> FALSE, value |-> NotFound, hasContacts |-> TRUE,
             contacts |-> RtFind(rt, targetId, BucketSize)]

\* a request or a timer run that the node handled: before is the cache
\* before it (of a store: the entries of its idkey), reply what _onFindValue
\* returned, replicated the entries that _replicateCache handed to _replicate
CacheOp(kind, contact, idkey, subkey, value, expire, reply, replicated, before) ==
    [kind |-> kind, contact |-> contact, idkey |-> idkey, subkey |-> subkey,
     value |-> value, expire |-> expire, reply |-> reply,
     replicated |-> replicated, before |-> before]

NoReply == [hasValue |-> FALSE, value |-> NotFound, hasContacts |-> FALSE,
            contacts |-> << >>]

InitCache == LookupIdle /\ DhtIdle

CacheCommit(rt, cache, pending, sent, timer, op) ==
    /\ dhtRoutes' = [dhtRoutes EXCEPT ![1] = rt]
    /\ dhtCache' = [dhtCache EXCEPT ![1] = cache]
    /\ dhtPendingContact' = [dhtPendingContact EXCEPT ![1] = pending]
    /\ dhtReplicateTimer' = [dhtReplicateTimer EXCEPT ![1] = timer]
    /\ net' = net \cup sent
    /\ ops' = << op >>
    /\ UNCHANGED << dhtRefreshTimer, now >>
    /\ UNCHANGED lookupVars

\* Dht.prototype._onStore; expire is 0 for a payload that has none
CacheStore ==
    \E c \in CachePeers, idkey \in CacheIdKeys, subkey \in LkSubKeys,
       value \in CacheValues, expire \in CacheExpires :
        /\ foreign < MaxCacheRequests
        /\ \E d \in {Discovered(dhtRoutes[1], NodeId(1), dhtPendingContact[1], 1,
                                c.id, c.endpoint)} :
              CacheCommit(d.routes,
                          StoreToCache(dhtCache[1], idkey, subkey, value,
                                       IF expire # 0 THEN expire
                                       ELSE ExpireTimeMiliseconds, now),
                          d.pending, d.msgs, dhtReplicateTimer[1],
                          CacheOp("store", c, idkey, subkey, value, expire, NoReply,
                                  {},
                                  [i \in {idkey} \cap DOMAIN dhtCache[1] |->
                                      [k \in {subkey} \cap DOMAIN dhtCache[1][i] |->
                                          dhtCache[1][i][k]]]))
        /\ foreign' = foreign + 1

\* Dht.prototype._onFindValue
CacheFindValue ==
    \E c \in CachePeers, idkey \in CacheIdKeys, subkey \in LkSubKeys \cup {Null} :
        /\ foreign < MaxCacheRequests
        /\ \E d \in {Discovered(dhtRoutes[1], NodeId(1), dhtPendingContact[1], 1,
                                c.id, c.endpoint)} :
              CacheCommit(d.routes, ExpireCache(dhtCache[1]), d.pending, d.msgs,
                          dhtReplicateTimer[1],
                          CacheOp("findValue", c, idkey, subkey, Undefined, 0,
                                  OnFindValue(dhtCache[1], d.routes, idkey, subkey,
                                              fromHex(idkey)),
                                  {}, dhtCache[1]))
        /\ foreign' = foreign + 1

\* the clock advances
CacheTick ==
    /\ \E t \in Times : t > now /\ now' = t
    /\ ops' = << >>
    /\ UNCHANGED << dhtRoutes, dhtCache, dhtPendingContact, dhtRefreshTimer,
                    dhtReplicateTimer, net, foreign >>
    /\ UNCHANGED lookupVars

\* the timer of replicateLoop fires
CacheReplicate ==
    /\ now >= dhtReplicateTimer[1].due
    /\ \E r \in {ReplicateLoop(dhtCache[1], now)} :
          CacheCommit(dhtRoutes[1], r.cache, dhtPendingContact[1], {}, r.timer,
                      CacheOp("replicate", NoContact, << >>, << >>, Undefined, 0,
                              NoReply, r.replicated, dhtCache[1]))
    /\ UNCHANGED foreign

NextCache == CacheStore \/ CacheFindValue \/ CacheTick \/ CacheReplicate

SpecCache == InitCache /\ [][NextCache]_vars

\* ------------------------------------------ one node and the RPCs it sends
\* Node 1 calls its RPC helpers _findNode, _findValue and _storeTo for the
\* peers and starts lookups with iterativeFindNode, and the RPCs that it sent
\* complete with an error or with a reply. Of the calls and callbacks, ops
\* keeps the last one; foreign counts the calls.

\* Dht.prototype._findNode: the request it sends
FindNode(n, contact) ==
    Msg("findNode", n, contact.endpoint, "onNodesFound", 0, NoContact, contact,
        << >>, << >>, << >>, 0)

\* Dht.prototype._findValue: its payload reads idkey, which is neither a
\* parameter (the third one is named key) nor declared: a ReferenceError, and
\* no request is sent
FindValue(n, contact, key, subkey) == "ReferenceError"

\* onNodesFound: the contacts of the result that it gives to the callback of
\* _findNode, those of the id of the node being discarded
PassAllContacts(self, contacts) == contacts

PassContacts(self, contacts) == SelectSeq(contacts, LAMBDA c : ~equal(c.id, self))

\* onNodesFound, the callback of the findNode RPC of _findNode: the routing
\* table and _pendingContact after it, and the ping that _discovered sends
OnNodesFoundRemoves(rt, self, pending, n, contact, err) ==
    IF err THEN [routes |-> RtRemove(rt, self, contact), pending |-> pending,
                 msgs |-> {}]
    ELSE Discovered(rt, self, pending, n, contact.id, contact.endpoint)

OnNodesFound(rt, self, pending, n, contact, err) ==
    IF err THEN [routes |-> rt, pending |-> pending, msgs |-> {}]
    ELSE Discovered(rt, self, pending, n, contact.id, contact.endpoint)

\* a call of a helper (kind "call", or "threw" when it ended with an
\* exception) or the callback of an RPC (kind "error" or "reply"); type is
\* the RPC, contact the peer, before and pendingBefore what the node held,
\* result the contacts of the reply, passed the contacts given to the
\* callback of the helper (of a lookup: the shortlist)
RpcOp(kind, type, contact, before, pendingBefore, result, passed) ==
    [kind |-> kind, type |-> type, contact |-> contact, before |-> before,
     pendingBefore |-> pendingBefore, result |-> result, passed |-> passed]

\* the contacts that _findNode is called for: the peers, and a peer that
\* goes under the id of the node
RpcContacts == PeerHomeContacts \cup {Contact(NodeId(1), PeerEndpoint(1))}

\* the contacts of a findNode reply: none, a peer, the node itself
RpcReplies ==
    {<< >>, << Contact(PeerIdSeq[1], PeerEndpoint(1)) >>,
     << Contact(NodeId(1), NodeEndpoint(1)) >>,
     << Contact(NodeId(1), NodeEndpoint(1)),
        Contact(PeerIdSeq[MaxPeers], PeerEndpoint(MaxPeers)) >>}

InitRpc == LookupIdle /\ DhtIdle

\* a helper is called for the peer contact and sends the messages sent
RpcCall(kind, type, contact, sent) ==
    /\ foreign < MaxRpcs
    /\ PeerCommit(dhtRoutes[1], dhtPendingContact[1], {}, sent,
                  RpcOp(kind, type, contact, dhtRoutes[1], dhtPendingContact[1],
                        << >>, << >>))
    /\ foreign' = foreign + 1

\* Dht.prototype._findNode(contact, targetId, cb)
RpcFindNode ==
    \E c \in RpcContacts : RpcCall("call", "findNode", c, {FindNode(1, c)})

\* Dht.prototype.iterativeFindNode(id, cb): the lookup stops at the
\* exception of its first RPC, or calls back at once when the table is empty
RpcLookup ==
    /\ foreign < MaxRpcs
    /\ \E target \in PeerTargets :
       \E f \in {IterativeFindNode(dhtRoutes[1], NodeId(1), target)} :
          PeerCommit(f.routes, dhtPendingContact[1], {}, {},
                     RpcOp(IF f.threw THEN "threw" ELSE "call", "lookup",
                           Contact(target, 0), dhtRoutes[1], dhtPendingContact[1],
                           << >>, f.contacts))
    /\ foreign' = foreign + 1

\* Dht.prototype._findValue(contact, targetId, key, subkey, cb)
RpcFindValue ==
    \E c \in PeerHomeContacts, key \in CacheIdKeys, subkey \in LkSubKeys :
        RpcCall(IF FindValue(1, c, key, subkey) = "ReferenceError" THEN "threw"
                ELSE "call",
                "findValue", c, {})

\* Dht.prototype._storeTo(idkey, subkey, value, contact, expireTimeout, cb)
RpcStoreTo ==
    \E c \in PeerHomeContacts, key \in CacheIdKeys, subkey \in LkSubKeys :
        RpcCall("call", "store", c,
                StoreToMany(1, dhtCache[1], key, subkey, << "v" >>, << c >>, 0,
                            0).msgs)

\* the callback of the RPC m: onNodesFound, onPong, or the one of _storeTo,
\* which ignores the error and the result
RpcDone(m, err, remoteId, contacts) ==
    /\ \E d \in {IF m.cont = "onNodesFound"
                 THEN OnNodesFound(dhtRoutes[1], NodeId(1), dhtPendingContact[1],
                                   1, m.new, err)
                 ELSE IF m.cont = "onPong"
                 THEN [routes |-> OnPong(dhtRoutes[1], NodeId(1), m.old, m.new,
                                         err, remoteId),
                       pending |-> NoContact, msgs |-> {}]
                 ELSE [routes |-> dhtRoutes[1], pending |-> dhtPendingContact[1],
                       msgs |-> {}]} :
          PeerCommit(d.routes, d.pending, {m}, d.msgs,
                     RpcOp(IF err THEN "error" ELSE "reply", m.type, m.new,
                           dhtRoutes[1], dhtPendingContact[1], contacts,
                           IF m.cont = "onNodesFound" /\ ~err
                           THEN PassContacts(NodeId(1), contacts) ELSE << >>))
    /\ UNCHANGED foreign

\* an RPC fails: its callback gets an error
RpcFailed == \E m \in net : RpcDone(m, TRUE, -1, << >>)

\* an RPC is answered, a ping under the id of the contact pinged or under
\* the one of the contact discovered, a findNode with contacts
RpcAnswered ==
    \E m \in net :
        \E id \in {m.old.id, m.new.id} :
            \E cs \in (IF m.cont = "onNodesFound" THEN RpcReplies ELSE {<< >>}) :
                RpcDone(m, FALSE, id, cs)

NextRpc ==
    RpcFindNode \/ RpcFindValue \/ RpcStoreTo \/ RpcLookup \/ RpcFailed
    \/ RpcAnswered

SpecRpc == InitRpc /\ [][NextRpc]_vars

\* ------------------------------------------------- properties of the lookup

\* C7: in every reachable state of a lookup the number of RPCs in flight, and
\* the counter _concurrents that tracks it, is between 0 and the concurrency.
C7_InFlightBounded ==
    /\ lkConcurrents >= 0 /\ lkConcurrents <= Concurrency
    /\ PendingCount(lkPending) >= 0 /\ PendingCount(lkPending) <= Concurrency

\* a second round of RPCs (a reply has been handled) fills the concurrency
C7_Witness ==
    /\ PendingCount(lkPending) = Concurrency
    /\ \E i \in LkIds : lkLast[i] # "none"

\* C8: a lookup calls its completion callback at most once, in every mode and
\* for every order of replies and errors, also after the lookup aborted.
C8_CallbackAtMostOnce == Len(lkCalls) <= 1

\* the callback was called on a value and an RPC failed after the abort: the
\* failed contact is still in the shortlist, marked as queried
C8_Witness ==
    /\ Len(lkCalls) = 1 /\ lkAbort /\ lkConcurrents = 0
    /\ \E i \in 1 .. Len(lkList) :
          lkList[i].processed /\ lkLast[lkList[i].contact.id] = "err"

\* C9: every lookup whose RPCs all complete eventually calls its callback: a
\* started lookup that has no RPC in flight any more has called back.
C9_LookupTerminates ==
    (lkPc = "running" /\ PendingCount(lkPending) = 0) => Len(lkCalls) > 0

\* the contacts of cs are in strictly ascending distance to target
Ascending(target, cs) ==
    \A i, j \in 1 .. Len(cs) :
        i < j => compareDistance(target, cs[i].id, cs[j].id) > 0

\* C10: when a lookup completes on an exhausted shortlist, every contact handed
\* to the callback was queried and its most recent RPC returned without error,
\* and the contacts are in ascending distance to the target.
C10_ResultAnswered ==
    \A n \in 1 .. Len(lkCalls) :
        ~lkCalls[n].single =>
            /\ \A i \in 1 .. Len(lkCalls[n].contacts) :
                  lkLast[lkCalls[n].contacts[i].id] = "ok"
            /\ Ascending(lkTargetId, lkCalls[n].contacts)

\* a lookup completed with a full shortlist although an RPC had failed
C10_Witness ==
    \E n \in 1 .. Len(lkCalls) :
        /\ ~lkCalls[n].single
        /\ Len(lkCalls[n].contacts) = BucketSize
        /\ \E i \in LkIds : lkLast[i] = "err"

\* the lookup looks for the value of one subkey
SingleMode == lkSubkey # Undefined /\ lkSubkey # Null

C12_ClosestSourceKept ==
    \A n \in 1 .. Len(lkCalls) :
        (lkSubkey = Null /\ ~lkCalls[n].single) =>
            \A s \in LkSubKeys :
                lkReported[s] # {} =>
                    /\ s \in DOMAIN lkCalls[n].srcMap
                    /\ s \in DOMAIN lkCalls[n].values
                    /\ lkCalls[n].srcMap[s].id \in lkReported[s]
                    /\ \A r \in lkReported[s] :
                          compareDistance(lkTargetId, lkCalls[n].srcMap[s].id, r) >= 0
                    /\ lkCalls[n].values[s] = LkValueOf(lkCalls[n].srcMap[s])

\* a lookup of all the subkeys completed, a subkey having been reported by a
\* contact and, before or after, by one that is farther from the target
C12_Witness ==
    \E n \in 1 .. Len(lkCalls) : \E s \in LkSubKeys :
        /\ lkSubkey = Null /\ ~lkCalls[n].single
        /\ Cardinality(lkReported[s]) >= 2
        /\ s \in DOMAIN lkCalls[n].srcMap

\* the contacts of cs (closest first) other than c
Others(cs, c) == SelectSeq(cs, LAMBDA x : ~equal(x.id, c.id))

\* C13: when a lookup of one subkey calls back with the value that contact S
\* returned, _iterativeFindValue sends a store of that value to the closest
\* contact of the shortlist that did not return it; when a lookup of all the
\* subkeys completes, the store to the closest contact carries exactly the
\* subkeys whose source is not that contact.
C13_StoreAtClosestWithoutValue ==
    \A n \in 1 .. Len(lkCalls) :
        LET call == lkCalls[n]
            st == FindValueStore(lkSubkey, call)
        IN IF call.single
           THEN Others(call.contacts, call.srcContact) # << >>
                  => /\ st.sent
                     /\ st.to = Others(call.contacts, call.srcContact)[1]
                     /\ st.values = [k \in {lkSubkey} |-> call.value]
           ELSE (lkSubkey = Null /\ call.contacts # << >>)
                  => LET keep == {k \in DOMAIN call.values :
                                     call.srcMap[k] # call.contacts[1]}
                     IN /\ st.sent <=> keep # {}
                        /\ st.sent => /\ st.to = call.contacts[1]
                                      /\ DOMAIN st.values = keep

\* -------------------------------------------- properties of the routing table
\* the contacts of a sequence
Range(cs) == {cs[i] : i \in 1 .. Len(cs)}

\* C14: find(id, n) returns at most n contacts, all of the table, in ascending
\* distance to id; no contact of the table that it does not return is
\* strictly closer to id than one it returns; it returns fewer than n only
\* when the table holds fewer than n contacts.
C14_FindClosest ==
    \A id \in TableIds : \A n \in 1 .. BucketSize + 1 :
        LET r == RtFind(dhtRoutes[1], id, n)
            T == RtContacts(dhtRoutes[1])
        IN /\ Len(r) <= n
           /\ Range(r) \subseteq T
           /\ Ascending(id, r)
           /\ \A c \in T \ Range(r) : \A x \in Range(r) :
                 compareDistance(id, c.id, x.id) <= 0
           /\ Len(r) < n => Cardinality(T) < n

\* the table has been split and holds contacts on both sides of the root, more
\* of them than the leaf of the local id holds
C14_Witness ==
    /\ << >> \notin DOMAIN dhtRoutes[1].buckets
    /\ Cardinality(RtContacts(dhtRoutes[1])) = MaxEndpoints
    /\ Len(RtFind(dhtRoutes[1], TableSelf, BucketSize + 1)) = BucketSize + 1
    /\ Len(dhtRoutes[1].buckets[LeafOf(dhtRoutes[1], TableSelf, << >>)].store)
          < BucketSize + 1

\* C15: every leaf bucket holds at most bucketSize contacts.
C15_BucketCapacity ==
    \A p \in DOMAIN dhtRoutes[1].buckets :
        Len(dhtRoutes[1].buckets[p].store) <= BucketSize

\* a store into a full bucket that may not split returned its oldest contact
C15_Witness ==
    /\ ops # << >> /\ ops[1].kind = "store" /\ ops[1].returned # NoContact
    /\ \E p \in DOMAIN dhtRoutes[1].buckets :
          /\ Len(dhtRoutes[1].buckets[p].store) = BucketSize
          /\ dhtRoutes[1].buckets[p].store[1] = ops[1].returned

\* C16: no bucket holds a contact of the local id, and a store of such a
\* contact returns null and leaves the buckets and the endpoints as they were.
C16_NeverStoresLocalId ==
    /\ TableSelf \notin RtIds(dhtRoutes[1])
    /\ (ops # << >> /\ ops[1].kind = "store" /\ ops[1].contact.id = TableSelf)
          => (ops[1].returned = NoContact /\ ops[1].same)

\* a contact of the local id was stored into a table that holds contacts
C16_Witness ==
    /\ ops # << >> /\ ops[1].kind = "store" /\ ops[1].contact.id = TableSelf
    /\ RtContacts(dhtRoutes[1]) # {}

\* C17: no two contacts of the table have equal ids.
C17_UniqueIds ==
    /\ \A c, d \in RtContacts(dhtRoutes[1]) : c.id = d.id => c = d
    /\ \A p \in DOMAIN dhtRoutes[1].buckets :
          \A i, j \in 1 .. Len(dhtRoutes[1].buckets[p].store) :
              dhtRoutes[1].buckets[p].store[i].id = dhtRoutes[1].buckets[p].store[j].id
                  => i = j

\* a contact of the table was stored again, at another endpoint than the one
\* it had, after a split
C17_Witness ==
    /\ ops # << >> /\ ops[1].kind = "store"
    /\ ops[1].contact \in RtContacts(dhtRoutes[1])
    /\ ~ops[1].same
    /\ \E e \in DOMAIN dhtRoutes[1].endpoints :
          e # ops[1].contact.endpoint /\ dhtRoutes[1].endpoints[e] = ops[1].contact.id
    /\ << >> \notin DOMAIN dhtRoutes[1].buckets

\* the first bits of id are those of prefix
HasPrefix(id, prefix) ==
    \A i \in 1 .. Len(prefix) : at(id, i - 1) = (prefix[i] = 1)

\* C18: the leaves are the ends of the bit paths of the tree (every id walks
\* to one leaf, and no leaf lies under another), and every contact of a
\* bucket has an id whose first bits are the prefix of the bucket.
C18_PrefixesArePaths ==
    /\ \A p, q \in DOMAIN dhtRoutes[1].buckets :
          (Len(p) <= Len(q) /\ SubSeq(q, 1, Len(p)) = p) => p = q
    /\ \A id \in 0 .. Pow2(BIT_SIZE) - 1 :
          \E p \in DOMAIN dhtRoutes[1].buckets : HasPrefix(id, p)
    /\ \A p \in DOMAIN dhtRoutes[1].buckets :
          \A i \in 1 .. Len(dhtRoutes[1].buckets[p].store) :
              HasPrefix(dhtRoutes[1].buckets[p].store[i].id, p)

\* the tree was split twice or more and a bucket under the second split holds
\* a contact
C18_Witness ==
    \E p \in DOMAIN dhtRoutes[1].buckets :
        Len(p) >= 2 /\ dhtRoutes[1].buckets[p].store # << >>

\* C19: when store of (Y, E) puts Y into the table while E was registered to
\* another id X, the table holds no contact of id X afterwards and E is
\* registered to Y.
C19_EndpointRebinds ==
    (/\ ops # << >> /\ ops[1].kind = "store"
     /\ ops[1].owner # -1 /\ ops[1].owner # ops[1].contact.id
     /\ ops[1].contact.id \in RtIds(dhtRoutes[1]))
        => /\ ops[1].owner \notin RtIds(dhtRoutes[1])
           /\ ops[1].contact.endpoint \in DOMAIN dhtRoutes[1].endpoints
           /\ dhtRoutes[1].endpoints[ops[1].contact.endpoint] = ops[1].contact.id

\* Y was stored at the endpoint of X, and another contact is still there
C19_Witness ==
    /\ ops # << >> /\ ops[1].kind = "store"
    /\ ops[1].owner # -1 /\ ops[1].owner # ops[1].contact.id
    /\ ops[1].contact \in RtContacts(dhtRoutes[1])
    /\ Cardinality(RtContacts(dhtRoutes[1])) >= 2

\* C20: no two contacts of the table have the same endpoint.
C20_UniqueEndpoints ==
    \A c, d \in RtContacts(dhtRoutes[1]) : c.endpoint = d.endpoint => c = d

\* the table holds a contact at every endpoint, one of them being registered
\* at a second endpoint that it had before
C20_Witness ==
    /\ {c.endpoint : c \in RtContacts(dhtRoutes[1])} = TableEndpoints
    /\ ops # << >> /\ ops[1].kind = "store" /\ ops[1].owner # -1
    /\ ops[1].owner # ops[1].contact.id

\* C21: with the local id all zeros, after the stores of the BucketSize near
\* contacts and the BucketSize + 1 far contacts in this order (0x00..01,
\* 0x00..02, 0x80..01, 0x80..02, 0x80..03 for k = 2), the bucket of prefix 1
\* holds exactly the first BucketSize far contacts, the last store returned the
\* oldest contact of that bucket, and the left subtree holds the near contacts.
SubtreeContacts(rt, bit) ==
    UNION {{rt.buckets[p].store[i] : i \in 1 .. Len(rt.buckets[p].store)} :
              p \in {q \in DOMAIN rt.buckets : q # << >> /\ q[1] = bit}}

C21_SplitBoundary ==
    SplitStep = Len(SplitIds) =>
        /\ << 1 >> \in DOMAIN dhtRoutes[1].buckets
        /\ dhtRoutes[1].buckets[<< 1 >>].store =
              [j \in 1 .. BucketSize |-> SplitContacts[BucketSize + j]]
        /\ ops[1].returned = SplitContacts[BucketSize + 1]
        /\ SubtreeContacts(dhtRoutes[1], 0) =
              {SplitContacts[j] : j \in 1 .. BucketSize}

\* ------------------------------------ properties of the node among its peers
\* the eviction pings of node 1 that are in flight
EvictionPings == {m \in net : m.cont = "onPong" /\ m.from = 1}

\* C22: at most one eviction ping of a node is outstanding; while one is in
\* flight a discovered() that hits a full bucket sends none, and when the ping
\* has completed the guard _pendingContact is released.
C22_OneEvictionPing ==
    /\ Cardinality(EvictionPings) <= 1
    /\ (dhtPendingContact[1] # NoContact) <=> (EvictionPings # {})
    /\ \A m \in EvictionPings : m.old = dhtPendingContact[1]
    /\ (ops # << >> /\ ops[1].kind # "pong" /\ ops[1].guard) => ops[1].sent = 0

C22_Witness ==
    /\ PingsSent = 2
    /\ Cardinality(EvictionPings) = 1
    /\ ops[1].kind # "pong"
    /\ ops[1].old # NoContact
    /\ ops[1].guard
    /\ ops[1].sent = 0

\* C23: when the pinged eviction candidate old answers without error under its
\* own id, old stays in the routing table and new is not inserted.
C23_OldKeptWhenAlive ==
    (ops # << >> /\ ops[1].kind = "pong" /\ ~ops[1].err
        /\ equal(ops[1].remoteId, ops[1].old.id)) =>
        /\ ops[1].old \in RtContacts(dhtRoutes[1])
        /\ ops[1].contact.id \notin RtIds(dhtRoutes[1])

\* C24: when the ping of the eviction candidate old fails, after the pong
\* handler old is not in the routing table and new is, whatever requests were
\* handled while the ping was in flight.
C24_OldReplacedWhenDead ==
    (ops # << >> /\ ops[1].kind = "pong" /\ ops[1].err) =>
        /\ ops[1].old.id \notin RtIds(dhtRoutes[1])
        /\ ops[1].contact \in RtContacts(dhtRoutes[1])

\* C25: the reply of _onFindNode holds no contact of the requestor's id, and
\* it is made of the BucketSize contacts closest to the target among the known
\* contacts other than the requestor (all of them when there are fewer).
ClosestOf(target, S, count) ==
    {c \in S : Cardinality({d \in S : compareDistance(target, d.id, c.id) > 0}) < count}

C25_FindNodeReply ==
    (ops # << >> /\ ops[1].kind = "findNode") =>
        /\ \A i \in 1 .. Len(ops[1].reply) :
              ~equal(ops[1].reply[i].id, ops[1].contact.id)
        /\ {ops[1].reply[i] : i \in 1 .. Len(ops[1].reply)} =
              ClosestOf(ops[1].target,
                        {c \in RtContacts(dhtRoutes[1]) :
                            ~equal(c.id, ops[1].contact.id)},
                        BucketSize)

\* ------------------------------------------ properties of the node's cache
\* the last request or timer run that node 1 handled at the present time
LastIs(kind) == ops # << >> /\ ops[1].kind = kind

\* the entries of a cache, as pairs << idkey, subkey >>
EntriesOf(cache) == UNION {{<< i, k >> : k \in DOMAIN cache[i]} : i \in DOMAIN cache}

\* the entry was stored without expire, or its expiration (the time it was
\* stored at plus its time to live) is after the time t
Unexpired(entry, t) == entry.expire = Null \/ entry.expire[2] + entry.expire[3] > t

\* C26: _onFindValue returns the stored value with its expire when the cache
\* holds an unexpired entry for (idkey, subkey); when it holds none it returns
\* the closest known contacts to the target, and no value.
C26_FindValueReply ==
    (LastIs("findValue") /\ ops[1].subkey # Null) =>
        IF /\ << ops[1].idkey, ops[1].subkey >> \in EntriesOf(ops[1].before)
           /\ Unexpired(ops[1].before[ops[1].idkey][ops[1].subkey], now)
        THEN /\ ops[1].reply.hasValue
             /\ ops[1].reply.value.value =
                   ops[1].before[ops[1].idkey][ops[1].subkey].value
             /\ ops[1].reply.value.expire =
                   ops[1].before[ops[1].idkey][ops[1].subkey].expire
        ELSE /\ ~ops[1].reply.hasValue
             /\ ops[1].reply.hasContacts
             /\ ops[1].reply.contacts =
                   RtFind(dhtRoutes[1], fromHex(ops[1].idkey), BucketSize)

\* C27: right after _storeToCache(idkey, subkey, value, ttl), reached through
\* _onStore with or without a payload expire, reading (idkey, subkey) from the
\* cache with _findFromCache or peek yields the value stored; a second store
\* to the same (idkey, subkey) replaces the first.
C27_StoreThenRead ==
    LastIs("store") =>
        /\ FindFromCache(dhtCache[1], ops[1].idkey, ops[1].subkey).kind = "one"
        /\ FindFromCache(dhtCache[1], ops[1].idkey, ops[1].subkey).value = ops[1].value
        /\ PeekId(dhtCache[1], fromHex(ops[1].idkey), ops[1].subkey) = ops[1].value

C27_Witness ==
    /\ LastIs("store")
    /\ ops[1].expire # 0
    /\ << ops[1].idkey, ops[1].subkey >> \in EntriesOf(ops[1].before)
    /\ ops[1].before[ops[1].idkey][ops[1].subkey].value # ops[1].value
    /\ ops[1].before[ops[1].idkey][ops[1].subkey].expire[3] = ExpireTimeMiliseconds

\* C28: after _expireCache has run at the time now the cache holds no entry
\* with an expire whose expiration is at or before now, and the entries
\* without expire are never removed.
C28_NothingExpiredLeft ==
    (LastIs("findValue") \/ LastIs("replicate")) =>
        /\ \A e \in EntriesOf(dhtCache[1]) : Unexpired(dhtCache[1][e[1]][e[2]], now)
        /\ \A e \in EntriesOf(ops[1].before) :
              ops[1].before[e[1]][e[2]].expire = Null => e \in EntriesOf(dhtCache[1])

\* C29: when the replication driver runs at the time now, every unexpired
\* entry with refresh + replicateTimeMiliseconds <= now is handed to
\* _replicate (a lookup of its key, then a store to each contact found) and
\* its refresh becomes now; the other entries are neither replicated nor
\* modified.
C29_ReplicatesDueEntries ==
    LastIs("replicate") =>
        \A e \in EntriesOf(ops[1].before) :
            Unexpired(ops[1].before[e[1]][e[2]], now) =>
                IF ops[1].before[e[1]][e[2]].refresh + ReplicateTimeMiliseconds <= now
                THEN /\ e \in ops[1].replicated
                     /\ e \in EntriesOf(dhtCache[1])
                     /\ dhtCache[1][e[1]][e[2]].refresh = now
                ELSE /\ e \notin ops[1].replicated
                     /\ e \in EntriesOf(dhtCache[1])
                     /\ dhtCache[1][e[1]][e[2]] = ops[1].before[e[1]][e[2]]

\* C30: a run of the replication driver at the time now yields the next
\* wake-up time, the minimum over the entries of the cache of their next
\* replication time, not after now + replicateTimeMiliseconds and not before
\* now, and the timer is armed for that time.
MinOf(S) == CHOOSE x \in S : \A y \in S : x <= y

NextReplication(cache, t) ==
    MinOf({t + ReplicateTimeMiliseconds}
          \cup {IF cache[e[1]][e[2]].refresh + ReplicateTimeMiliseconds < t THEN t
                ELSE cache[e[1]][e[2]].refresh + ReplicateTimeMiliseconds :
                    e \in EntriesOf(cache)})

C30_NextWakeUp ==
    LastIs("replicate") =>
        /\ dhtReplicateTimer[1].next # Undefined
        /\ dhtReplicateTimer[1].next = NextReplication(dhtCache[1], now)
        /\ dhtReplicateTimer[1].due = dhtReplicateTimer[1].next

\* ---------------------------------------------------- properties of the Dht

\* node b holds node a in its routing table after a bootstrap all of whose
\* pings have completed
BootstrappedFrom(b, a) ==
    /\ \E j \in 1 .. Len(ops) :
          ops[j].kind = "bootstrap" /\ ops[j].node = b /\ ops[j].remain = 0
    /\ Contact(NodeId(a), NodeEndpoint(a)) \in RtContacts(dhtRoutes[b])

\* C1: on a node whose routing table is empty, once set(k, v) has called its
\* callback, peek(k) returns v.
C1_SetThenPeek ==
    \A i \in 1 .. Len(ops) :
        (ops[i].kind = "set" /\ ops[i].emptyTable /\ ops[i].called = 1)
            => peek(dhtCache[ops[i].node], ops[i].key, Undefined) = ops[i].value

\* C2: when B has bootstrapped from A and no RPC is in flight any more, a
\* set(k, v) of B has called back, once, and A holds v for k, so that get(k)
\* on A calls back with v.
C2_SetThenRemoteGet ==
    \A i \in 1 .. Len(ops) : \A a \in Nodes :
        (ops[i].kind = "set" /\ a # ops[i].node /\ ~ops[i].emptyTable
         /\ BootstrappedFrom(ops[i].node, a) /\ net = {})
            => /\ ops[i].called = 1
               /\ PeekId(dhtCache[a], fromKey(ops[i].key), ops[i].key) = ops[i].value

\* C3: get(key) of a key that no node holds calls back with err = null and
\* value = undefined, whether the routing table of the node is empty or not.
C3_GetUnheld ==
    \A i \in 1 .. Len(ops) :
        (ops[i].kind = "get" /\ ~ops[i].held)
            => /\ ops[i].called = 1
               /\ ops[i].err = Null
               /\ ops[i].result = Undefined

\* C4: multiset sends one store RPC to every contact of the shortlist of its
\* lookup and, once all of them have completed, has called back exactly once.
C4_MultisetStoresThenCallsBack ==
    \A i \in 1 .. Len(ops) :
        ops[i].kind \in {"set", "multiset"}
            => /\ ops[i].called <= 1
               /\ ops[i].called = 1 => ops[i].done = Len(ops[i].shortlist)
               /\ (\A m \in net : m.op # i)
                     => /\ ops[i].called = 1
                        /\ ops[i].stores + ops[i].done >= Len(ops[i].shortlist)

\* C5: getall(key) always starts a lookup, whatever the cache holds.
C5_GetAllAlwaysLooksUp ==
    \A i \in 1 .. Len(ops) : ops[i].kind = "getall" => ops[i].lookup

\* C6: bootstrap calls back exactly once: at once when there is no seed, and
\* otherwise after the last ping has completed, with a reply or an error, and
\* the lookup of the local id that follows it.
C6_BootstrapCallsBackOnce ==
    \A i \in 1 .. Len(ops) :
        ops[i].kind = "bootstrap"
            => /\ ops[i].called <= 1
               /\ ops[i].remain > 0 => (ops[i].called = 0 /\ ~ops[i].lookup)
               /\ ops[i].remain = 0 => ops[i].called = 1

\* C31: a node whose bootstrap has called back, for any list of seeds, the
\* empty one included, has both of its periodic drivers armed: the timer of
\* refreshLoop and the timer of replicateLoop.
C31_DriversArmed ==
    \A i \in 1 .. Len(ops) :
        (ops[i].kind = "bootstrap" /\ ops[i].called = 1)
            => /\ dhtRefreshTimer[ops[i].node] = "armed"
               /\ dhtReplicateTimer[ops[i].node].due >= dhtReplicateTimer[ops[i].node].ran

\* ------------------------------------- properties of the RPCs the node sends

\* C32: when a findNode, findValue or store RPC of the node has failed, the
\* routing table (tree, buckets with their order, endpoint map) and
\* _pendingContact are what they were before the callback ran.
C32_FailedRpcKeepsTable ==
    (LastIs("error") /\ ops[1].type \in {"findNode", "findValue", "store"})
        => /\ dhtRoutes[1] = ops[1].before
           /\ dhtPendingContact[1] = ops[1].pendingBefore
           /\ ops[1].contact.id # -1 =>
                 (ops[1].contact \in RtContacts(ops[1].before)
                     <=> ops[1].contact \in RtContacts(dhtRoutes[1]))

\* a findNode RPC to a contact of the routing table has failed
C32_Witness ==
    /\ LastIs("error")
    /\ ops[1].type = "findNode"
    /\ ops[1].contact \in RtContacts(dhtRoutes[1])
    /\ Cardinality(RtContacts(dhtRoutes[1])) > 1

\* ------------------------------- properties of store and remove of the table

\* C33: when store(contact) returned null for a contact whose Id is not the
\* local Id, the table holds a contact of that Id, also when the store split
\* a full bucket.
C33_StoredWhenOk ==
    (LastIs("store") /\ ops[1].returned = NoContact
     /\ ~equal(ops[1].contact.id, TableSelf))
        => ops[1].contact.id \in RtIds(dhtRoutes[1])

\* C34: when store(contact) returned an eviction candidate, the candidate is
\* the oldest contact of the bucket that covers the id of the contact, that
\* bucket is full, the contact is not in the table, and the table (tree,
\* buckets with their order, endpoint map) is as it was before the call.
C34_CandidateLeavesTable ==
    (LastIs("store") /\ ops[1].returned # NoContact)
        => LET res == FindBucket(dhtRoutes[1], TableSelf, ops[1].contact.id)
               store == dhtRoutes[1].buckets[res.prefix].store
           IN /\ ops[1].same
              /\ Len(store) = BucketSize
              /\ ops[1].returned = store[1]
              /\ ops[1].contact.id \notin RtIds(dhtRoutes[1])
              /\ ops[1].contact \notin RtContacts(dhtRoutes[1])

\* a store returned the oldest contact of a full bucket of a table split
\* into several buckets
C34_Witness ==
    /\ LastIs("store")
    /\ ops[1].returned # NoContact
    /\ Cardinality(DOMAIN dhtRoutes[1].buckets) > 1
    /\ Cardinality(RtContacts(dhtRoutes[1])) > BucketSize

\* every internal node of the tree of rt, the parent of every leaf included,
\* has a prefix that is a prefix of the id self
OnLocalPath(rt, self) ==
    \A p \in DOMAIN rt.buckets :
        \A n \in 0 .. Len(p) - 1 : HasPrefix(self, SubSeq(p, 1, n))

\* C35: after any sequence of store and remove every split node of the tree
\* lies on the path of the local Id: a bucket whose prefix is not a prefix of
\* the local Id is never split.
C35_SplitsOnLocalPath == OnLocalPath(dhtRoutes[1], SplitSelf)

\* the tree is split, the bucket off the local path is full, and the store
\* of one more contact into it has returned its oldest contact
C35_Witness ==
    /\ << 1 >> \in DOMAIN dhtRoutes[1].buckets
    /\ Len(dhtRoutes[1].buckets[<< 1 >>].store) = BucketSize
    /\ LastIs("store")
    /\ at(ops[1].contact.id, 0)
    /\ ops[1].returned # NoContact

\* C36: countClosestNodes(id) returns the number of contacts of the routing
\* table that are strictly closer to the local Id, by XOR distance, than id.
C36_CountsCloserContacts ==
    LastIs("count")
        => ops[1].count =
              Cardinality({c \in RtContacts(dhtRoutes[1]) :
                              compareDistance(SplitSelf, c.id, ops[1].contact.id) > 0})

\* C37: the store of a contact whose Id is in the bucket succeeds, also when
\* the bucket is full, and moves it to the tail: the length is unchanged and
\* the other contacts keep their order; so the contacts of a bucket are in
\* the order of their last store, the oldest being the one stored or
\* re-stored least recently.
C37_RestoreMovesToTail ==
    /\ [i \in 1 .. Len(TheBucket) |-> TheBucket[i].id] = Recency
    /\ (LastIs("store")
        /\ \E i \in 1 .. Len(ops[1].before) :
              equal(ops[1].before[i].id, ops[1].contact.id))
           => /\ ops[1].ok
              /\ Len(TheBucket) = Len(ops[1].before)
              /\ TheBucket[Len(TheBucket)] = ops[1].contact
              /\ SubSeq(TheBucket, 1, Len(TheBucket) - 1)
                    = Others(ops[1].before, ops[1].contact)

\* the oldest contact of a full bucket was stored again, at another endpoint
C37_Witness ==
    /\ LastIs("store")
    /\ Len(ops[1].before) = BucketSize
    /\ equal(ops[1].before[1].id, ops[1].contact.id)
    /\ ops[1].before[1] # ops[1].contact
    /\ TheBucket[1] = ops[1].before[2]

\* C38: store of the contact (Y, E) removes from the table no contact but
\* the previous entry of Id Y and the contact whose endpoint is E: a contact
\* that is now at another endpoint is not removed because E was once its
\* endpoint.
C38_StoreRemovesOnlyClashes ==
    LastIs("store")
        => \A c \in ops[1].lost :
              \/ equal(c.id, ops[1].contact.id)
              \/ c.endpoint = ops[1].contact.endpoint

\* C39: remove(contact) returns true exactly when a contact of that Id was
\* in the table, no contact of that Id is in the table afterwards, and when
\* it returns false it has removed no contact at all.
C39_RemoveOnlyThatId ==
    LastIs("remove")
        => /\ ops[1].contact.id \notin RtIds(dhtRoutes[1])
           /\ ops[1].removed <=> \E c \in ops[1].lost : equal(c.id, ops[1].contact.id)
           /\ ~ops[1].removed => ops[1].lost = {}

====
